------------------------- MODULE LoopbackAllocator -------------------------
(***************************************************************************)
(* The loopback instance allocator of SwitchStateBaseRif.cpp:              *)
(* getNextLoopbackInstance and markLoopbackInstanceDeleted over the free   *)
(* set availableInstances (a std::set<int>, so begin() is its least        *)
(* element) and the high-water mark currentMaxInstance.                    *)
(*                                                                         *)
(* The operators are used by the Loopback module.  The specification at    *)
(* the end runs the allocator under a client that gives back only numbers  *)
(* it holds (the variable held) and shows that it then implements the      *)
(* abstract InstancePool.                                                  *)
(***************************************************************************)
EXTENDS Naturals

CONSTANT MaxInstance         \* bound on currentMaxInstance, to keep TLC finite

ASSUME MaxInstanceAssumption == MaxInstance \in Nat \ {0}

VARIABLES
    availableInstances,      \* the free set
    currentMaxInstance,      \* the next never-used instance number
    held                     \* the numbers the client holds (client state)

allocVars == <<availableInstances, currentMaxInstance>>
vars == <<availableInstances, currentMaxInstance, held>>

Instances == 0..(MaxInstance - 1)

\* *availableInstances.begin(): the least element of a std::set.
SetBegin(S) == CHOOSE i \in S : \A j \in S : i =< j

\* The number getNextLoopbackInstance returns in the current state.
NextLoopbackInstance ==
    IF availableInstances # {} THEN SetBegin(availableInstances)
                               ELSE currentMaxInstance

\* The counter is capped: a call is possible while a number is left.
CanAllocate ==
    availableInstances # {} \/ currentMaxInstance < MaxInstance

\* Mutant: the high-water mark advances even when a free number is reused.
getNextLoopbackInstance_alwaysAdvance(inst) ==
    /\ CanAllocate
    /\ inst = NextLoopbackInstance
    /\ availableInstances' = availableInstances \ {inst}
    /\ currentMaxInstance' = currentMaxInstance + 1

\* Mutant: the free set is read from its greatest end.
getNextLoopbackInstance_fromEnd(inst) ==
    /\ CanAllocate
    /\ inst = IF availableInstances # {}
                 THEN CHOOSE i \in availableInstances : \A j \in availableInstances : j =< i
                 ELSE currentMaxInstance
    /\ IF availableInstances # {}
         THEN /\ availableInstances' = availableInstances \ {inst}
              /\ UNCHANGED currentMaxInstance
         ELSE /\ currentMaxInstance' = currentMaxInstance + 1
              /\ UNCHANGED availableInstances

\* getNextLoopbackInstance returning inst: pop the least free number, or
\* hand out the high-water mark and advance it.
getNextLoopbackInstance(inst) ==
    /\ CanAllocate
    /\ inst = NextLoopbackInstance
    /\ IF availableInstances # {}
         THEN /\ availableInstances' = availableInstances \ {inst}
              /\ UNCHANGED currentMaxInstance
         ELSE /\ currentMaxInstance' = currentMaxInstance + 1
              /\ UNCHANGED availableInstances

\* Mutant: the released number is lost instead of returned to the free set.
markLoopbackInstanceDeleted_lost(instance) ==
    UNCHANGED <<availableInstances, currentMaxInstance>>

\* markLoopbackInstanceDeleted(instance): insert into the free set, with no
\* check that the number was handed out.
markLoopbackInstanceDeleted(instance) ==
    /\ availableInstances' = availableInstances \cup {instance}
    /\ UNCHANGED currentMaxInstance

-----------------------------------------------------------------------------
(* The allocator under a well-behaved client.                              *)

Init ==
    /\ availableInstances = {}
    /\ currentMaxInstance = 0
    /\ held = {}

Get ==
    \E inst \in Instances :
        /\ getNextLoopbackInstance(inst)
        /\ held' = held \cup {inst}

Put ==
    \E i \in held :
        /\ markLoopbackInstanceDeleted(i)
        /\ held' = held \ {i}

Next == Get \/ Put

Spec == Init /\ [][Next]_vars

TypeOK ==
    /\ availableInstances \subseteq Instances
    /\ currentMaxInstance \in 0..MaxInstance
    /\ held \subseteq Instances

(* The free set and the high-water mark account exactly for the numbers   *)
(* the client holds: every number below the mark is either free or held,   *)
(* never both, and none at or above it is either.  A double release in     *)
(* markLoopbackInstanceDeleted or a counter that skips or repeats a number  *)
(* breaks it.                                                              *)
AllocatorAccounts ==
    /\ availableInstances \subseteq 0..(currentMaxInstance - 1)
    /\ held = (0..(currentMaxInstance - 1)) \ availableInstances

(* Refinement: the numbers below the high-water mark that are not free     *)
(* behave as the abstract pool, so getNextLoopbackInstance always hands out *)
(* the lowest number not in use (reuse in ascending order before the       *)
(* counter advances, spec section 3).                                      *)
Pool == INSTANCE InstancePool
            WITH inUse <- (0..(currentMaxInstance - 1)) \ availableInstances

PoolRefinement == Pool!PoolSpec
=============================================================================
