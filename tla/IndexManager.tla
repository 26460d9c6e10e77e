------------------------------ MODULE IndexManager ------------------------------
(***************************************************************************)
(* IndexManager.cpp: the free list of connection indexes as the inline     *)
(* assembler keeps it.  Descriptor d stands for &m_pIndexList[d-1]; Null   *)
(* (0) is the NULL pointer.  InitializeIndexDesc numbers the descriptors   *)
(* once and for all, so that descriptor d carries m_dwIndex = d.           *)
(***************************************************************************)
EXTENDS Integers, Sequences

CONSTANT Size               \* the argument of Init

\* With one descriptor InitializeIndexDesc enters its "loop" with ecx = 0,
\* which counts through all 2^32 values (IndexManager.cpp:22-33): the list
\* is only ever built for Size > 1.
ASSUME SizeAssumption == Size \in Nat /\ Size > 1

Null == 0
Desc == 1..Size

VARIABLES
    baseDesc,               \* m_pBaseDesc: the first free descriptor
    tailDesc,               \* m_pTailDesc: the last free descriptor
    next,                   \* m_pNext of each descriptor
    table,                  \* m_ppIndexDescTable: the descriptors handed out
    indexNum,               \* m_dwIndexNum: how many are handed out
    result,                 \* what the last Pop returned
    order                   \* auxiliary: the free list, spelled out

vars == <<baseDesc, tailDesc, next, table, indexNum, result, order>>

Init ==
    /\ baseDesc = 1
    /\ tailDesc = Size
    /\ next = [d \in Desc |-> IF d < Size THEN d + 1 ELSE Null]
    /\ table = [i \in 0..Size |-> Null]
    /\ indexNum = 0
    /\ result = 0
    /\ order = [j \in 1..Size |-> j]

\* AllocIndex with an empty list returns the NULL it found as the index.
PopEmpty ==
    /\ baseDesc = Null
    /\ result' = 0
    /\ UNCHANGED <<baseDesc, tailDesc, next, table, indexNum, order>>

\* Fault: the descriptor is not recorded in the table.
PopForgets ==
    /\ baseDesc # Null
    /\ baseDesc' = next[baseDesc]
    /\ tailDesc' = IF next[baseDesc] = Null THEN Null ELSE tailDesc
    /\ indexNum' = indexNum + 1
    /\ result' = baseDesc
    /\ order' = Tail(order)
    /\ UNCHANGED <<next, table>>

\* AllocIndex unlinks the first descriptor and records it in the table.
PopFirst ==
    /\ baseDesc # Null
    /\ baseDesc' = next[baseDesc]
    /\ tailDesc' = IF next[baseDesc] = Null THEN Null ELSE tailDesc
    /\ table' = [table EXCEPT ![baseDesc] = baseDesc]
    /\ indexNum' = indexNum + 1
    /\ result' = baseDesc
    /\ order' = Tail(order)
    /\ UNCHANGED next

Pop == PopEmpty \/ PopFirst

\* FreeIndex of an index that is not handed out.
PushIgnored(i) ==
    /\ table[i] = Null
    /\ UNCHANGED vars

\* Fault: the descriptor keeps the link it had when it was handed out.
LinkKeepsNext(d) ==
    IF tailDesc = Null THEN next ELSE [next EXCEPT ![tailDesc] = d]

\* The links after FreeIndex: the descriptor ends the list, and the old
\* tail, if there is one, points to it.
LinkLast(d) ==
    IF tailDesc = Null
    THEN [next EXCEPT ![d] = Null]
    ELSE [next EXCEPT ![d] = Null, ![tailDesc] = d]

\* Fault: FreeIndex without its NULL test.
PushUnchecked(i) ==
    LET d == table[i] IN
    /\ table' = [table EXCEPT ![i] = Null]
    /\ next' = LinkLast(d)
    /\ baseDesc' = IF tailDesc = Null THEN d ELSE baseDesc
    /\ tailDesc' = d
    /\ indexNum' = indexNum - 1
    /\ order' = Append(order, d)
    /\ UNCHANGED result

\* Fault: a stack instead of a queue.
PushFirst(i) ==
    LET d == table[i] IN
    /\ d # Null
    /\ table' = [table EXCEPT ![i] = Null]
    /\ next' = [next EXCEPT ![d] = baseDesc]
    /\ baseDesc' = d
    /\ tailDesc' = IF tailDesc = Null THEN d ELSE tailDesc
    /\ indexNum' = indexNum - 1
    /\ order' = <<d>> \o order
    /\ UNCHANGED result

\* FreeIndex of an index that is handed out.
PushLast(i) ==
    LET d == table[i] IN
    /\ d # Null
    /\ table' = [table EXCEPT ![i] = Null]
    /\ next' = LinkLast(d)
    /\ baseDesc' = IF tailDesc = Null THEN d ELSE baseDesc
    /\ tailDesc' = d
    /\ indexNum' = indexNum - 1
    /\ order' = Append(order, d)
    /\ UNCHANGED result

Push(i) == PushIgnored(i) \/ PushLast(i)

Next == Pop \/ \E i \in 0..Size : Push(i)

Spec == Init /\ [][Next]_vars
-----------------------------------------------------------------------------
TypeOK ==
    /\ baseDesc \in Desc \cup {Null}
    /\ tailDesc \in Desc \cup {Null}
    /\ next \in [Desc -> Desc \cup {Null}]
    /\ table \in [0..Size -> Desc \cup {Null}]
    /\ indexNum \in Int
    /\ result \in 0..Size
    /\ order \in Seq(Desc)

\* The pointers spell out exactly the free list: it starts at m_pBaseDesc,
\* is chained by m_pNext, ends in NULL at m_pTailDesc and repeats nothing
\* (AllocIndex and FreeIndex keep all three fields in step).
ListSound ==
    /\ baseDesc = IF Len(order) = 0 THEN Null ELSE order[1]
    /\ tailDesc = IF Len(order) = 0 THEN Null ELSE order[Len(order)]
    /\ \A j \in 1..Len(order) :
          next[order[j]] = IF j = Len(order) THEN Null ELSE order[j + 1]
    /\ \A j, k \in 1..Len(order) : order[j] = order[k] => j = k

\* Every index is either on the free list or handed out, never both, and
\* m_dwIndexNum counts those handed out: a Pop can not return an index that
\* some connection still holds (FreeIndex's NULL test is what stops a
\* second Push of the same index).
IndexConserved ==
    /\ \A d \in Desc :
          table[d] = IF \E j \in 1..Len(order) : order[j] = d THEN Null ELSE d
    /\ table[0] = Null
    /\ indexNum = Size - Len(order)

\* IndexManager is a first-in first-out pool: the index of a closed
\* connection is issued again only after every index that was free then.
Pool == INSTANCE IndexPool WITH freeQueue <- order

PoolSpec == Pool!PoolSpec
=============================================================================
