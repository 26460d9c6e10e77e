--------------------------- MODULE IndexManager_proofs ---------------------------
(***************************************************************************)
(* Proofs about IndexManager: the free list of IndexManager.cpp is sound   *)
(* for every pool size, and implements the first-in first-out IndexPool.   *)
(***************************************************************************)
EXTENDS IndexManager, SequenceTheorems, TLAPS

\* The inductive invariant.  ListSound alone is not inductive: that pushing
\* a descriptor does not repeat it needs IndexConserved, which says that
\* what the table holds is not on the list.
ListInv == TypeOK /\ ListSound /\ IndexConserved

\* The initial state that IndexManager::Init builds satisfies the invariant.
LEMMA InitInv == Init => ListInv
<1> SUFFICES ASSUME Init PROVE ListInv
  OBVIOUS
<1> USE SizeAssumption DEF Init, Desc, Null
<1>1. order \in [1..Size -> Desc]
  OBVIOUS
<1>2. order \in Seq(Desc)
  BY <1>1, SeqDef
<1>3. Len(order) = Size
  <2>1. DOMAIN order = 1..Len(order) /\ Len(order) \in Nat
    BY <1>2, LenProperties
  <2>2. QED
    BY <2>1
<1>4. \A j \in 1..Size : order[j] = j
  OBVIOUS
<1>5. TypeOK
  BY <1>2 DEF TypeOK
<1>6. ListSound
  <2>1. 1 \in 1..Size /\ Size \in 1..Size /\ Size # 0
    OBVIOUS
  <2>2. baseDesc = IF Len(order) = 0 THEN Null ELSE order[1]
    BY <1>3, <1>4, <2>1
  <2>3. tailDesc = IF Len(order) = 0 THEN Null ELSE order[Len(order)]
    BY <1>3, <1>4, <2>1
  <2>4. ASSUME NEW j \in 1..Len(order)
        PROVE  next[order[j]] = IF j = Len(order) THEN Null ELSE order[j + 1]
    <3>1. j \in 1..Size /\ (j # Size => j + 1 \in 1..Size)
      BY <1>3
    <3>2. next[j] = IF j < Size THEN j + 1 ELSE Null
      BY <3>1
    <3>3. QED
      BY <1>3, <1>4, <3>1, <3>2
  <2>5. \A j, k \in 1..Len(order) : order[j] = order[k] => j = k
    BY <1>3, <1>4
  <2>6. QED
    BY <2>2, <2>3, <2>4, <2>5 DEF ListSound
<1>7. IndexConserved
  BY <1>3, <1>4 DEF IndexConserved
<1>8. QED
  BY <1>5, <1>6, <1>7 DEF ListInv

\* AllocIndex from a list that is not empty keeps the list sound.
LEMMA PopFirstInv == ListInv /\ PopFirst => ListInv'
<1> SUFFICES ASSUME ListInv, PopFirst PROVE ListInv'
  OBVIOUS
<1> USE SizeAssumption DEF ListInv, Desc, Null
<1>1. order \in Seq(Desc) /\ order' = Tail(order) /\ Len(order) # 0
  BY DEF TypeOK, ListSound, PopFirst
<1>2. /\ Len(order) \in Nat /\ Len(order') \in Nat
      /\ Len(order) > 0 /\ Len(order') = Len(order) - 1
  BY <1>1
<1>3. order' \in Seq(Desc) /\ \A j \in 1..Len(order') : order'[j] = order[j + 1]
  BY <1>1
<1>4. \A j \in 1..Len(order') : j \in Nat /\ j + 1 \in 1..Len(order)
  BY <1>2
<1>5. 1 \in 1..Len(order) /\ baseDesc = order[1] /\ baseDesc \in Desc
  <2>1. 1 \in 1..Len(order)
    BY <1>2
  <2>2. baseDesc = order[1]
    BY <1>2 DEF ListSound
  <2>3. order[1] \in Desc
    BY <1>1, <2>1, ElementOfSeq
  <2>4. QED
    BY <2>1, <2>2, <2>3
<1>6. next[baseDesc] = IF Len(order) = 1 THEN Null ELSE order[2]
  BY <1>2, <1>5 DEF ListSound
<1>7. Len(order') # 0 => /\ 1 \in 1..Len(order') /\ order'[1] = order[2]
                         /\ order[2] \in Desc
                         /\ Len(order') \in 1..Len(order')
                         /\ order'[Len(order')] = order[Len(order)]
  <2>1. ASSUME Len(order') # 0
        PROVE  /\ 1 \in 1..Len(order') /\ Len(order') \in 1..Len(order')
               /\ 2 \in 1..Len(order)
    BY <1>2, <2>1
  <2>2. ASSUME Len(order') # 0 PROVE order'[1] = order[2] /\ order[2] \in Desc
    BY <1>1, <1>3, <2>1, <2>2, ElementOfSeq
  <2>3. ASSUME Len(order') # 0 PROVE order'[Len(order')] = order[Len(order)]
    <3>1. order'[Len(order')] = order[Len(order') + 1]
      BY <1>3, <2>1, <2>3
    <3>2. Len(order') + 1 = Len(order)
      BY <1>2
    <3>3. QED
      BY <3>1, <3>2
  <2>4. QED
    BY <2>1, <2>2, <2>3
<1>8. TypeOK'
  <2>1. baseDesc' \in Desc \cup {Null}
    BY <1>5 DEF TypeOK, PopFirst
  <2>2. QED
    BY <2>1, <1>3, <1>5 DEF TypeOK, PopFirst
<1>9. ListSound'
  <2>1. baseDesc' = IF Len(order') = 0 THEN Null ELSE order'[1]
    BY <1>2, <1>6, <1>7 DEF PopFirst
  <2>2. tailDesc' = IF Len(order') = 0 THEN Null ELSE order'[Len(order')]
    BY <1>2, <1>6, <1>7 DEF PopFirst, ListSound
  <2>3. ASSUME NEW j \in 1..Len(order')
        PROVE  next'[order'[j]] = IF j = Len(order') THEN Null ELSE order'[j + 1]
    <3>1. j + 1 \in 1..Len(order) /\ order'[j] = order[j + 1] /\ j \in Nat
      BY <1>3, <1>4
    <3>2. next[order[j + 1]] = IF j + 1 = Len(order) THEN Null ELSE order[(j + 1) + 1]
      BY <3>1 DEF ListSound
    <3>3. ASSUME j # Len(order') PROVE order'[j + 1] = order[(j + 1) + 1]
      <4>1. j + 1 \in 1..Len(order')
        BY <1>2, <3>1, <3>3
      <4>2. QED
        BY <1>3, <4>1
    <3>4. j + 1 = Len(order) <=> j = Len(order')
      BY <1>2, <3>1
    <3>5. QED
      BY <3>1, <3>2, <3>3, <3>4 DEF PopFirst
  <2>4. ASSUME NEW j \in 1..Len(order'), NEW k \in 1..Len(order'),
               order'[j] = order'[k]
        PROVE  j = k
    <3>1. j + 1 \in 1..Len(order) /\ k + 1 \in 1..Len(order)
          /\ order[j + 1] = order[k + 1] /\ j \in Nat /\ k \in Nat
      BY <1>3, <1>4, <2>4
    <3>2. j + 1 = k + 1
      BY <3>1 DEF ListSound
    <3>3. QED
      BY <3>1, <3>2
  <2>5. QED
    BY <2>1, <2>2, <2>3, <2>4 DEF ListSound
<1>10. IndexConserved'
  <2>1. ASSUME NEW d \in Desc
        PROVE  (\E j \in 1..Len(order') : order'[j] = d)
           <=> d # baseDesc /\ \E j \in 1..Len(order) : order[j] = d
    <3>1. ASSUME NEW j \in 1..Len(order'), order'[j] = d
          PROVE  d # baseDesc /\ \E k \in 1..Len(order) : order[k] = d
      <4>1. j + 1 \in 1..Len(order) /\ order[j + 1] = d
        BY <1>3, <1>4, <3>1
      <4>2. j + 1 # 1
        BY <1>4
      <4>3. QED
        BY <1>5, <4>1, <4>2 DEF ListSound
    <3>2. ASSUME NEW k \in 1..Len(order), order[k] = d, d # baseDesc
          PROVE  \E j \in 1..Len(order') : order'[j] = d
      <4>1. k # 1
        BY <1>5, <3>2
      <4>2. k - 1 \in 1..Len(order') /\ (k - 1) + 1 = k
        BY <1>2, <4>1
      <4>3. order'[k - 1] = d
        BY <1>3, <3>2, <4>2
      <4>4. QED
        BY <4>2, <4>3
    <3>3. QED
      BY <3>1, <3>2
  <2>2. \A d \in Desc : table'[d] = IF d = baseDesc THEN d ELSE table[d]
    BY <1>5 DEF PopFirst, TypeOK
  <2>3. \A d \in Desc :
          table'[d] = IF \E j \in 1..Len(order') : order'[j] = d THEN Null ELSE d
    BY <1>5, <2>1, <2>2 DEF IndexConserved
  <2>4. table'[0] = Null
    BY <1>5 DEF IndexConserved, PopFirst, TypeOK
  <2>5. indexNum' = Size - Len(order')
    <3>1. indexNum' = indexNum + 1 /\ indexNum = Size - Len(order)
      BY DEF IndexConserved, PopFirst
    <3>2. QED
      BY <1>2, <3>1
  <2>6. QED
    BY <2>3, <2>4, <2>5 DEF IndexConserved
<1>11. QED
  BY <1>8, <1>9, <1>10

\* FreeIndex of an index that is handed out keeps the list sound.
LEMMA PushLastInv ==
  ASSUME NEW i \in 0..Size, ListInv, PushLast(i)
  PROVE  ListInv'
<1> USE SizeAssumption DEF ListInv, Desc, Null
<1>1. i \in Desc /\ table[i] = i /\ \A j \in 1..Len(order) : order[j] # i
  BY DEF IndexConserved, PushLast
<1>2. order \in Seq(Desc) /\ order' = Append(order, i)
  BY <1>1 DEF TypeOK, PushLast
<1>3. Len(order) \in Nat /\ Len(order') = Len(order) + 1
  BY <1>1, <1>2
<1>4. /\ order' \in Seq(Desc)
      /\ \A j \in 1..Len(order) : order'[j] = order[j] /\ order[j] \in Desc
  BY <1>1, <1>2, ElementOfSeq
<1>5. order'[Len(order) + 1] = i
  BY <1>1, <1>2
<1>6. \A j \in 1..Len(order') : j \in 1..Len(order) \/ j = Len(order) + 1
  BY <1>3
<1>7. /\ baseDesc' = IF tailDesc = Null THEN i ELSE baseDesc
      /\ tailDesc' = i /\ next' = LinkLast(i) /\ indexNum' = indexNum - 1
      /\ table' = [table EXCEPT ![i] = Null] /\ UNCHANGED result
  BY <1>1 DEF PushLast
<1>8. tailDesc = Null <=> Len(order) = 0
  <2>1. Len(order) # 0 => Len(order) \in 1..Len(order)
    BY <1>3
  <2>2. QED
    BY <1>4, <2>1 DEF ListSound
<1>9. TypeOK'
  BY <1>1, <1>4, <1>7 DEF TypeOK, LinkLast
<1>10. ListSound'
  <2>1. baseDesc' = IF Len(order') = 0 THEN Null ELSE order'[1]
    <3>1. CASE Len(order) = 0
      BY <1>3, <1>5, <1>7, <1>8, <3>1
    <3>2. CASE Len(order) # 0
      <4>1. 1 \in 1..Len(order) /\ Len(order') # 0
        BY <1>3, <3>2
      <4>2. QED
        BY <1>4, <1>7, <1>8, <3>2, <4>1 DEF ListSound
    <3>3. QED
      BY <3>1, <3>2
  <2>2. tailDesc' = IF Len(order') = 0 THEN Null ELSE order'[Len(order')]
    BY <1>3, <1>5, <1>7
  <2>3. ASSUME NEW j \in 1..Len(order')
        PROVE  next'[order'[j]] = IF j = Len(order') THEN Null ELSE order'[j + 1]
    <3>1. CASE j = Len(order) + 1
      BY <1>1, <1>3, <1>5, <1>7, <3>1 DEF LinkLast, TypeOK
    <3>2. CASE j \in 1..Len(order)
      <4>1. /\ order'[j] = order[j] /\ order[j] # i /\ order[j] \in Desc
            /\ j # Len(order')
        BY <1>1, <1>3, <1>4, <3>2
      <4>2. next'[order[j]] = IF order[j] = tailDesc THEN i ELSE next[order[j]]
        BY <1>7, <4>1 DEF LinkLast, TypeOK
      <4>3. Len(order) \in 1..Len(order) /\ tailDesc = order[Len(order)]
        <5>1. Len(order) \in 1..Len(order) /\ Len(order) # 0
          BY <1>3, <3>2
        <5>2. QED
          BY <5>1 DEF ListSound
      <4>4. order[j] = tailDesc <=> j = Len(order)
        BY <3>2, <4>3 DEF ListSound
      <4>5. CASE j = Len(order)
        BY <1>5, <4>1, <4>2, <4>4, <4>5
      <4>6. CASE j # Len(order)
        <5>1. j + 1 \in 1..Len(order)
          BY <1>3, <3>2, <4>6
        <5>2. next[order[j]] = order[j + 1]
          BY <3>2, <4>6 DEF ListSound
        <5>3. QED
          BY <1>4, <4>1, <4>2, <4>4, <4>6, <5>1, <5>2
      <4>7. QED
        BY <4>5, <4>6
    <3>3. QED
      BY <1>6, <3>1, <3>2
  <2>4. ASSUME NEW j \in 1..Len(order'), NEW k \in 1..Len(order'),
               order'[j] = order'[k]
        PROVE  j = k
    BY <1>1, <1>4, <1>5, <1>6, <2>4 DEF ListSound
  <2>5. QED
    BY <2>1, <2>2, <2>3, <2>4 DEF ListSound
<1>11. IndexConserved'
  <2>1. ASSUME NEW d \in Desc
        PROVE  (\E j \in 1..Len(order') : order'[j] = d)
           <=> d = i \/ \E j \in 1..Len(order) : order[j] = d
    <3>1. /\ \A j \in 1..Len(order) : j \in 1..Len(order')
          /\ Len(order) + 1 \in 1..Len(order')
      BY <1>3
    <3>2. QED
      BY <1>4, <1>5, <1>6, <3>1
  <2>2. \A d \in 0..Size : table'[d] = IF d = i THEN Null ELSE table[d]
    BY <1>7 DEF TypeOK
  <2>3. \A d \in Desc :
          table'[d] = IF \E j \in 1..Len(order') : order'[j] = d THEN Null ELSE d
    BY <2>1, <2>2 DEF IndexConserved
  <2>4. table'[0] = Null
    BY <2>2 DEF IndexConserved
  <2>5. indexNum' = Size - Len(order')
    BY <1>3, <1>7 DEF IndexConserved, TypeOK
  <2>6. QED
    BY <2>3, <2>4, <2>5 DEF IndexConserved
<1>12. QED
  BY <1>9, <1>10, <1>11

\* ListInv is an invariant of the free list, for every pool size.
THEOREM ListInvariant == Spec => []ListInv
<1>1. ListInv /\ [Next]_vars => ListInv'
  <2> SUFFICES ASSUME ListInv, [Next]_vars PROVE ListInv'
    OBVIOUS
  <2>1. CASE PopEmpty
    <3>1. result' \in 0..Size
      BY <2>1, SizeAssumption DEF PopEmpty
    <3>2. UNCHANGED <<baseDesc, tailDesc, next, table, indexNum, order>>
      BY <2>1 DEF PopEmpty
    <3>3. TypeOK'
      BY <3>1, <3>2 DEF ListInv, TypeOK
    <3>4. QED
      BY <3>2, <3>3 DEF ListInv, ListSound, IndexConserved
  <2>2. CASE PopFirst
    BY <2>2, PopFirstInv
  <2>3. ASSUME NEW i \in 0..Size, PushIgnored(i) PROVE ListInv'
    BY <2>3 DEF PushIgnored, vars, ListInv, TypeOK, ListSound, IndexConserved
  <2>4. ASSUME NEW i \in 0..Size, PushLast(i) PROVE ListInv'
    BY <2>4, PushLastInv
  <2>5. CASE UNCHANGED vars
    BY <2>5 DEF vars, ListInv, TypeOK, ListSound, IndexConserved
  <2>6. QED
    BY <2>1, <2>2, <2>3, <2>4, <2>5 DEF Next, Pop, Push
<1>2. QED
  BY <1>1, InitInv, PTL DEF Spec

\* The fields of IndexManager keep their types.
THEOREM TypeCorrect == Spec => []TypeOK
<1>1. ListInv => TypeOK
  BY DEF ListInv
<1>2. QED
  BY <1>1, ListInvariant, PTL

\* The list that AllocIndex and FreeIndex splice never breaks.
THEOREM ListNeverBreaks == Spec => []ListSound
<1>1. ListInv => ListSound
  BY DEF ListInv
<1>2. QED
  BY <1>1, ListInvariant, PTL

\* The free list implements the first-in first-out pool.  IndexConserved is
\* what relates the NULL test of FreeIndex, on the table, to the pool's test
\* that the index is not free.
THEOREM ImplementsPool == Spec => PoolSpec
<1> USE SizeAssumption DEF Null, Desc
<1>1. Init => Pool!PoolInit
  BY DEF Init, Pool!PoolInit, Pool!FullPool, Pool!InvalidIndex
<1>2. ListInv /\ [Next]_vars => [Pool!PoolNext]_(Pool!poolVars)
  <2> SUFFICES ASSUME ListInv, [Next]_vars
               PROVE  [Pool!PoolNext]_(Pool!poolVars)
    OBVIOUS
  <2> USE DEF Pool!PoolNext, Pool!PoolPop, Pool!PoolPush, Pool!PopIndex,
              Pool!PopRest, Pool!PushIndex, Pool!InvalidIndex, Pool!Listed
  <2>1. order \in Seq(Desc) /\ Len(order) \in Nat
    BY DEF ListInv, TypeOK
  <2>2. order = <<>> <=> baseDesc = Null
    <3>1. Len(order) = 0 <=> order = <<>>
      BY <2>1
    <3>2. Len(order) # 0 => 1 \in 1..Len(order)
      BY <2>1
    <3>3. Len(order) # 0 => order[1] \in Desc
      BY <2>1, <3>2, ElementOfSeq
    <3>4. QED
      BY <3>1, <3>3 DEF ListInv, ListSound
  <2>3. \A i \in 0..Size :
          table[i] = Null <=> i \notin (1..Size) \ {order[j] : j \in DOMAIN order}
    <3>1. DOMAIN order = 1..Len(order)
      BY <2>1
    <3>2. QED
      BY <3>1 DEF ListInv, IndexConserved
  <2>4. CASE PopEmpty
    BY <2>2, <2>4 DEF PopEmpty
  <2>5. CASE PopFirst
    <3>1. baseDesc = Head(order)
      <4>1. Len(order) # 0
        BY <2>1, <2>2, <2>5 DEF PopFirst
      <4>2. QED
        BY <2>1, <4>1 DEF ListInv, ListSound
    <3>2. QED
      BY <2>2, <2>5, <3>1 DEF PopFirst
  <2>6. ASSUME NEW i \in 0..Size, PushIgnored(i)
        PROVE  Pool!PoolPush(i)
    BY <2>3, <2>6 DEF PushIgnored, vars
  <2>7. ASSUME NEW i \in 0..Size, PushLast(i)
        PROVE  Pool!PoolPush(i)
    <3>1. table[i] = i
      BY <2>7 DEF ListInv, IndexConserved, PushLast
    <3>2. QED
      BY <2>3, <2>7, <3>1 DEF PushLast
  <2>8. CASE UNCHANGED vars
    BY <2>8 DEF vars, Pool!poolVars
  <2>9. QED
    BY <2>4, <2>5, <2>6, <2>7, <2>8 DEF Next, Pop, Push
<1>3. QED
  BY <1>1, <1>2, ListInvariant, PTL DEF Spec, PoolSpec, Pool!PoolSpec

\* No index is lost and none is handed out twice.
THEOREM IndexesConserved == Spec => []IndexConserved
<1>1. ListInv => IndexConserved
  BY DEF ListInv
<1>2. QED
  BY <1>1, ListInvariant, PTL
=============================================================================
