------------------------------- MODULE IndexPool -------------------------------
(***************************************************************************)
(* What IndexManager (IndexManager.h, IndexManager.cpp) promises: a pool   *)
(* of the connection indexes 1..Size, handed out first-in first-out.  Pop  *)
(* returns the index that has been free the longest, or 0                  *)
(* (IndexManager::s_uInvalidIndex) when none is free; Push gives an index  *)
(* back and ignores one that is not handed out.                            *)
(***************************************************************************)
EXTENDS IndexQueue

CONSTANT Size               \* the argument of IndexManager::Init

VARIABLES
    freeQueue,              \* the free indexes, longest free first
    result                  \* what the last Pop returned

poolVars == <<freeQueue, result>>

PoolInit == freeQueue = FullPool(Size) /\ result = InvalidIndex

PoolPop == /\ result' = PopIndex(freeQueue)
           /\ freeQueue' = PopRest(freeQueue)

PoolPush(i) == /\ freeQueue' = PushIndex(freeQueue, Size, i)
               /\ UNCHANGED result

PoolNext == PoolPop \/ \E i \in 0..Size : PoolPush(i)

PoolSpec == PoolInit /\ [][PoolNext]_poolVars
=============================================================================
