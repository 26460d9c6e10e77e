------------------------------- MODULE IndexQueue -------------------------------
(***************************************************************************)
(* The queue of free connection indexes, as plain operators: what          *)
(* IndexManager's Init, Pop and Push do to it, whatever the list looks     *)
(* like in memory.  IndexPool makes a state machine of them; SServerEngine *)
(* keeps one such queue for each side.                                     *)
(***************************************************************************)
EXTENDS Integers, Sequences

\* IndexManager::s_uInvalidIndex; no connection ever has it.
InvalidIndex == 0

\* The queue IndexManager::Init builds for n indexes: 1 first, n last.
FullPool(n) == [i \in 1..n |-> i]

\* The indexes that are in the queue.
Listed(q) == {q[j] : j \in DOMAIN q}

\* A queue of some of the indexes 1..n, each at most once.
IsPool(q, n) ==
    /\ Listed(q) \subseteq 1..n
    /\ \A i, j \in DOMAIN q : q[i] = q[j] => i = j

\* The index that Pop returns, and the queue that it leaves.
PopIndex(q) == IF q = <<>> THEN InvalidIndex ELSE Head(q)
PopRest(q) == IF q = <<>> THEN q ELSE Tail(q)

\* Push of i into the queue of a pool of n indexes: an index that is not
\* handed out is ignored.
PushIndex(q, n, i) == IF i \in (1..n) \ Listed(q) THEN Append(q, i) ELSE q
=============================================================================
