---------------------- MODULE LoopbackAllocatorProofs ----------------------
(***************************************************************************)
(* Proofs about the loopback instance allocator (getNextLoopbackInstance,  *)
(* markLoopbackInstanceDeleted) for every MaxInstance:                     *)
(*   - AllocatorInvariant: the type invariant and AllocatorAccounts hold   *)
(*     in every reachable state;                                           *)
(*   - AllocatorRefinesPool: the allocator implements the abstract pool,   *)
(*     i.e. it always hands out the lowest number not in use.              *)
(***************************************************************************)
EXTENDS LoopbackAllocator, WellFoundedInduction, TLAPS

\* The numbers in use, as the refinement mapping sees them.
InUse == (0..(currentMaxInstance - 1)) \ availableInstances

IInv == TypeOK /\ AllocatorAccounts

(* std::set::begin() is the least element: a non-empty set of naturals    *)
(* has one, because < is well founded on Nat.                              *)
LEMMA SetBeginIsLeast ==
    ASSUME NEW S \in SUBSET Nat, S # {}
    PROVE  /\ SetBegin(S) \in S
           /\ \A j \in S : SetBegin(S) =< j
<1>1. \E x \in S : \A y \in S : ~(<<y, x>> \in OpToRel(<, Nat))
  BY NatLessThanWellFounded, WFMin
<1>2. ASSUME NEW x \in S, NEW y \in S, ~(<<y, x>> \in OpToRel(<, Nat))
      PROVE  x =< y
  <2>1. <<y, x>> \in Nat \X Nat
    OBVIOUS
  <2>2. ~(y < x)
    BY <1>2, <2>1 DEF OpToRel
  <2>. QED
    BY <2>2
<1>3. \E x \in S : \A y \in S : x =< y
  BY <1>1, <1>2
<1>. QED
  BY <1>3 DEF SetBegin

(* The number getNextLoopbackInstance returns is a valid instance, is not  *)
(* in use, and every number below it is in use.                            *)
LEMMA NextIsLowest ==
    ASSUME IInv, CanAllocate
    PROVE  /\ NextLoopbackInstance \in Instances
           /\ NextLoopbackInstance \notin InUse
           /\ \A j \in 0..(NextLoopbackInstance - 1) : j \in InUse
<1>. USE MaxInstanceAssumption DEF IInv, TypeOK, AllocatorAccounts, InUse, Instances
<1>1. CASE availableInstances # {}
  <2>. DEFINE n == SetBegin(availableInstances)
  <2>1. /\ n \in availableInstances
        /\ \A j \in availableInstances : n =< j
    BY <1>1, SetBeginIsLeast
  <2>2. NextLoopbackInstance = n
    BY <1>1 DEF NextLoopbackInstance
  <2>3. n \in 0..(currentMaxInstance - 1)
    BY <2>1
  <2>4. \A j \in 0..(n - 1) : j \notin availableInstances /\ j < currentMaxInstance
    BY <2>1, <2>3
  <2>. QED
    BY <2>1, <2>2, <2>3, <2>4
<1>2. CASE availableInstances = {}
  BY <1>2 DEF CanAllocate, NextLoopbackInstance
<1>. QED
  BY <1>1, <1>2

LEMMA InitIInv == Init => IInv
BY MaxInstanceAssumption DEF Init, IInv, TypeOK, AllocatorAccounts, Instances

LEMMA StepIInv == IInv /\ [Next]_vars => IInv'
<1>. SUFFICES ASSUME IInv, [Next]_vars PROVE IInv'
  OBVIOUS
<1>. USE MaxInstanceAssumption DEF IInv, TypeOK, AllocatorAccounts, Instances
<1>1. CASE Get
  <2>1. PICK inst \in Instances :
            /\ getNextLoopbackInstance(inst)
            /\ held' = held \cup {inst}
    BY <1>1 DEF Get
  <2>2. /\ inst \notin InUse
        /\ \A j \in 0..(inst - 1) : j \in InUse
    BY <2>1, NextIsLowest DEF getNextLoopbackInstance
  <2>3. CASE availableInstances # {}
    <3>1. inst \in availableInstances
      BY <2>1, <2>3, SetBeginIsLeast DEF getNextLoopbackInstance, NextLoopbackInstance
    <3>2. /\ availableInstances' = availableInstances \ {inst}
          /\ currentMaxInstance' = currentMaxInstance
      BY <2>1, <2>3 DEF getNextLoopbackInstance
    <3>. QED
      BY <2>1, <3>1, <3>2
  <2>4. CASE availableInstances = {}
    BY <2>1, <2>4 DEF getNextLoopbackInstance, NextLoopbackInstance, CanAllocate
  <2>. QED
    BY <2>3, <2>4
<1>2. CASE Put
  BY <1>2 DEF Put, markLoopbackInstanceDeleted
<1>3. CASE UNCHANGED vars
  BY <1>3 DEF vars
<1>. QED
  BY <1>1, <1>2, <1>3 DEF Next

(* The type invariant and the accounting invariant hold in every state.   *)
THEOREM AllocatorInvariant == Spec => [](TypeOK /\ AllocatorAccounts)
<1>. QED
  BY InitIInv, StepIInv, PTL DEF Spec, IInv

(* Every step of the allocator is a step of the abstract pool, or leaves   *)
(* the set of numbers in use unchanged.                                    *)
LEMMA StepRefines ==
    ASSUME IInv, IInv', [Next]_vars
    PROVE  [Pool!PoolNext]_InUse
<1>. USE DEF IInv, AllocatorAccounts
<1>1. CASE Get
  <2>1. PICK inst \in Instances :
            /\ getNextLoopbackInstance(inst)
            /\ held' = held \cup {inst}
    BY <1>1 DEF Get
  <2>2. /\ inst \in Instances
        /\ inst \notin InUse
        /\ \A j \in 0..(inst - 1) : j \in InUse
    BY <2>1, NextIsLowest DEF getNextLoopbackInstance
  <2>3. Pool!LowestUnused(InUse) = inst
    <3>1. inst \in 0..MaxInstance
      BY <2>2, MaxInstanceAssumption DEF Instances
    <3>2. \A i \in 0..MaxInstance :
             (i \notin InUse /\ \A j \in 0..(i - 1) : j \in InUse) => i = inst
      BY <2>2, MaxInstanceAssumption DEF Instances
    <3>. QED
      BY <2>2, <3>1, <3>2 DEF Pool!LowestUnused
  <2>4. InUse' = InUse \cup {inst}
    BY <2>1 DEF InUse
  <2>5. /\ Pool!LowestUnused(InUse) < MaxInstance
        /\ InUse' = InUse \cup {Pool!LowestUnused(InUse)}
    <3>1. inst < MaxInstance
      BY <2>2, MaxInstanceAssumption DEF Instances
    <3>. QED
      BY <3>1, <2>3, <2>4, Zenon
  <2>6. Pool!Acquire
    BY <2>5, Zenon DEF Pool!Acquire, InUse
  <2>. QED
    BY <2>6 DEF Pool!PoolNext
<1>2. CASE Put
  <2>1. PICK i \in held : held' = held \ {i}
    BY <1>2 DEF Put
  <2>2. Pool!Release(i)
    BY <2>1 DEF Pool!Release, InUse
  <2>. QED
    BY <2>1, <2>2 DEF Pool!PoolNext, InUse
<1>3. CASE UNCHANGED vars
  BY <1>3 DEF vars, InUse
<1>. QED
  BY <1>1, <1>2, <1>3 DEF Next

(* Spec section 3: the allocator hands out the lowest number not in use    *)
(* and reuses released numbers in ascending order before advancing the     *)
(* counter, for every bound MaxInstance.                                   *)
THEOREM AllocatorRefinesPool == Spec => PoolRefinement
<1>1. Init => Pool!PoolInit
  BY DEF Init, Pool!PoolInit
<1>2. IInv /\ IInv' /\ [Next]_vars => [Pool!PoolNext]_InUse
  BY StepRefines
<1>3. Spec => []IInv
  BY AllocatorInvariant DEF IInv
<1>. QED
  BY <1>1, <1>2, <1>3, PTL DEF Spec, PoolRefinement, Pool!PoolSpec, InUse
=============================================================================
