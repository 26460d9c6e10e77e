--------------------------- MODULE EventBuffer_proofs ---------------------------
(***************************************************************************)
(* Proofs about EventBuffer, for every size of the buffer, of actions and  *)
(* of tags: no write past the end, and the reader in step with the writers.*)
(***************************************************************************)
EXTENDS EventBuffer, Lists_proofs

RecordType == [op : {"Send", "Connect", "Close"}, at : Nat, length : Nat]

\* The records lie one behind the other, from 0 to dataLength, and only the
\* length of a Send is free.
Packed ==
    /\ memory = <<>> => dataLength = 0
    /\ \A j \in 1..Len(memory) :
          /\ RecordEnd(memory[j]) <= dataLength
          /\ RecordEnd(memory[j]) = IF j = Len(memory) THEN dataLength ELSE memory[j + 1].at
          /\ memory[j].op = "Connect" => memory[j].length = ContextSize
          /\ memory[j].op = "Close" => memory[j].length = 0

\* The inductive invariant.  Packed says where the end of one record leads
\* the reader, and InitialCapacity bounds what one Write asks for.
BufferInv == BufferTypeOK /\ Packed /\ InStep /\ WriteFits /\ capacity >= InitialCapacity
-----------------------------------------------------------------------------
\* uTag tells the length of a packet that is short enough for it.
LEMMA TagOfShort ==
    ASSUME NEW n \in Nat
    PROVE  Tag(n) \in Nat /\ (n < TagRange => Tag(n) = n)
BY BufferAssumption DEF Tag

\* The end of a record is a number.
LEMMA RecordEndType ==
    ASSUME NEW q \in RecordType
    PROVE  RecordEnd(q) \in Nat
<1>1. q.at \in Nat /\ q.length \in Nat /\ ActionSize \in Nat
  BY BufferAssumption DEF RecordType
<1>2. \A a, b, c \in Nat : a + b + c \in Nat
  OBVIOUS
<1>. QED BY <1>1, <1>2 DEF RecordEnd

\* The type of a record in the buffer.
LEMMA RecordsType ==
    ASSUME BufferTypeOK, NEW j \in 1..Len(memory)
    PROVE  /\ memory[j] \in RecordType
           /\ memory[j].at \in Nat /\ memory[j].length \in Nat
<1>1. memory \in Seq(RecordType)
  BY DEF BufferTypeOK, RecordType
<1>2. memory[j] \in RecordType
  BY <1>1
<1>. QED BY <1>2 DEF RecordType

\* What arithmetic needs to know of the variables and constants.
LEMMA BufferNumbers ==
    ASSUME BufferTypeOK
    PROVE  /\ capacity \in Nat /\ dataLength \in Nat /\ readOffset \in Nat
           /\ readOffset <= dataLength /\ Len(memory) \in Nat
           /\ ActionSize \in Nat \ {0} /\ ContextSize \in Nat /\ TagRange \in Nat \ {0}
           /\ InitialCapacity \in Nat
BY BufferAssumption DEF BufferTypeOK

\* Doubling once is enough for what the buffer could have held at first.
LEMMA GrownIsEnough ==
    ASSUME NEW c \in Nat, NEW d \in Nat, NEW n \in Nat, c >= InitialCapacity
    PROVE  /\ Grown(c, d, n) \in Nat /\ Grown(c, d, n) >= c
           /\ d <= c /\ n <= InitialCapacity => d + n <= Grown(c, d, n)
BY BufferAssumption DEF Grown

\* An empty buffer satisfies the invariant.
LEMMA BufferInitially == BufferInit => BufferInv
BY BufferAssumption DEF BufferInit, BufferInv, BufferTypeOK, Packed, InStep, Misled, WriteFits

-----------------------------------------------------------------------------
\* A sender that appends a record keeps the invariant.
LEMMA PutKeeps ==
    ASSUME BufferInv, NEW op \in {"Send", "Connect", "Close"}, NEW n \in Nat,
           Put(op, n),
           op = "Connect" => n = ContextSize, op = "Close" => n = 0,
           op = "Send" => n \in Lengths
    PROVE  BufferInv'
<1>. DEFINE r == Record(op, dataLength, n)
            c == Grown(capacity, dataLength, ActionSize)
<1>1. /\ capacity \in Nat /\ dataLength \in Nat /\ readOffset \in Nat
      /\ readOffset <= dataLength /\ Len(memory) \in Nat
      /\ ActionSize \in Nat \ {0} /\ ContextSize \in Nat /\ TagRange \in Nat \ {0}
      /\ InitialCapacity \in Nat
  BY BufferNumbers DEF BufferInv
<1>2. /\ capacity' = Grown(c, dataLength + ActionSize, n)
      /\ dataLength' = dataLength + ActionSize + n
      /\ memory' = Append(memory, r)
      /\ UNCHANGED <<readOffset, pass>>
  BY DEF Put
<1>3. /\ r \in RecordType /\ r.at = dataLength /\ r.length = n /\ r.op = op
      /\ RecordEnd(r) = dataLength'
  BY <1>1, <1>2 DEF Record, RecordType, RecordEnd
<1>4. /\ memory' \in Seq(RecordType) /\ Len(memory') = Len(memory) + 1
      /\ \A j \in 1..Len(memory) : memory'[j] = memory[j]
      /\ memory'[Len(memory) + 1] = r
  BY <1>2, <1>3 DEF BufferInv, BufferTypeOK, RecordType
<1>5. /\ c \in Nat /\ c >= capacity /\ capacity' \in Nat /\ capacity' >= c
      /\ capacity >= InitialCapacity
  <2>1. capacity >= InitialCapacity
    BY DEF BufferInv
  <2>2. c \in Nat /\ c >= capacity
    BY <1>1, <2>1, GrownIsEnough
  <2>3. c >= InitialCapacity /\ dataLength + ActionSize \in Nat
    BY <1>1, <2>1, <2>2
  <2>4. capacity' \in Nat /\ capacity' >= c
    BY <1>2, <2>2, <2>3, GrownIsEnough
  <2>. QED BY <2>1, <2>2, <2>4
<1>6. BufferTypeOK'
  BY <1>1, <1>2, <1>4, <1>5 DEF BufferInv, BufferTypeOK, RecordType
<1>7. WriteFits'
  <2>. SUFFICES ASSUME \A m \in Lengths : m <= InitialCapacity
                PROVE  dataLength' <= capacity'
    BY DEF WriteFits
  <2>1. dataLength <= capacity /\ n <= InitialCapacity /\ ActionSize <= InitialCapacity
    BY <1>1, BufferAssumption DEF BufferInv, WriteFits
  <2>2. dataLength + ActionSize <= c
    BY <1>1, <1>5, <2>1, GrownIsEnough
  <2>3. dataLength + ActionSize \in Nat /\ c >= InitialCapacity
    BY <1>1, <1>5
  <2>4. dataLength + ActionSize + n <= Grown(c, dataLength + ActionSize, n)
    BY <1>5, <2>1, <2>2, <2>3, GrownIsEnough
  <2>. QED BY <1>2, <2>4
<1>8. Packed'
  <2>1. memory' # <<>>
    BY <1>1, <1>4
  <2>2. ASSUME NEW j \in 1..Len(memory')
        PROVE  /\ RecordEnd(memory'[j]) <= dataLength'
               /\ RecordEnd(memory'[j])
                    = IF j = Len(memory') THEN dataLength' ELSE memory'[j + 1].at
               /\ memory'[j].op = "Connect" => memory'[j].length = ContextSize
               /\ memory'[j].op = "Close" => memory'[j].length = 0
    <3>1. CASE j = Len(memory) + 1
      <4>1. memory'[j] = r /\ j = Len(memory')
        BY <1>4, <3>1
      <4>. QED BY <1>1, <1>2, <1>3, <4>1
    <3>2. CASE j \in 1..Len(memory)
      <4>1. memory'[j] = memory[j] /\ j # Len(memory')
        BY <1>1, <1>4, <3>2
      <4>2. memory[j].at \in Nat /\ memory[j].length \in Nat
        BY <3>2, RecordsType DEF BufferInv
      <4>3. RecordEnd(memory[j]) \in Nat
        BY <3>2, RecordsType, RecordEndType DEF BufferInv
      <4>4. /\ RecordEnd(memory[j]) <= dataLength
            /\ RecordEnd(memory[j]) = IF j = Len(memory) THEN dataLength ELSE memory[j + 1].at
            /\ memory[j].op = "Connect" => memory[j].length = ContextSize
            /\ memory[j].op = "Close" => memory[j].length = 0
        BY <3>2 DEF BufferInv, Packed
      <4>5. memory'[j + 1].at = IF j = Len(memory) THEN dataLength ELSE memory[j + 1].at
        BY <1>1, <1>3, <1>4, <3>2
      <4>. QED BY <1>1, <1>2, <4>1, <4>3, <4>4, <4>5
    <3>. QED BY <1>1, <1>4, <2>2, <3>1, <3>2
  <2>. QED BY <2>1, <2>2 DEF Packed, RecordEnd
<1>9. InStep'
  <2>. SUFFICES ASSUME ~Misled'
                PROVE  \E j \in 1..Len(memory') : memory'[j].at = readOffset
    BY <1>2 DEF InStep, RecordAt
  <2>1. ~Misled
    BY <1>1, <1>2, <1>4 DEF Misled
  <2>2. readOffset = dataLength \/ \E j \in 1..Len(memory) : memory[j].at = readOffset
    BY <2>1 DEF BufferInv, InStep, RecordAt
  <2>. QED BY <1>1, <1>3, <1>4, <2>2
<1>10. capacity' >= InitialCapacity
  BY <1>1, <1>5
<1>. QED BY <1>6, <1>7, <1>8, <1>9, <1>10 DEF BufferInv

\* A record taken: the reader goes to the next one.
LEMMA TakeKeeps ==
    ASSUME BufferInv, NEW op \in {"Send", "Connect", "Close"},
           NEW j \in 1..Len(memory), Taken(op, j),
           NEW n \in Nat, Skip(ActionSize + n),
           memory[j].length < TagRange => n = memory[j].length,
           pass' \in {"no", "reading", "callback"}
    PROVE  BufferInv'
<1>1. /\ capacity \in Nat /\ dataLength \in Nat /\ readOffset \in Nat
      /\ readOffset <= dataLength /\ Len(memory) \in Nat /\ ActionSize \in Nat \ {0}
  BY BufferNumbers DEF BufferInv
<1>2. UNCHANGED <<capacity, dataLength, memory>> /\ memory[j].at = readOffset
  BY DEF Taken, RecordAt
<1>3. readOffset' \in Nat /\ readOffset' <= dataLength
  BY <1>1 DEF Skip, Readable
<1>4. BufferTypeOK' /\ WriteFits' /\ capacity' >= InitialCapacity
  BY <1>1, <1>2, <1>3 DEF BufferInv, BufferTypeOK, WriteFits
<1>5. Packed'
  BY <1>2 DEF BufferInv, Packed, RecordEnd
<1>6. InStep'
  <2>. SUFFICES ASSUME ~Misled'
                PROVE  \/ readOffset' = dataLength
                       \/ \E i \in 1..Len(memory) : memory[i].at = readOffset'
    BY <1>2 DEF InStep, RecordAt
  <2>1. readOffset < readOffset'
    BY <1>1 DEF Skip, Readable, Taken
  <2>2. n = memory[j].length /\ memory[j].at \in Nat
    <3>1. memory[j].length \in Nat /\ TagRange \in Nat
      BY RecordsType, BufferNumbers DEF BufferInv
    <3>2. memory[j].length < TagRange
      BY <1>2, <2>1, <3>1 DEF Misled
    <3>. QED BY <3>2, RecordsType DEF BufferInv
  <2>3. /\ readOffset + ActionSize + n <= dataLength
        /\ readOffset + ActionSize + n = IF j = Len(memory) THEN dataLength ELSE memory[j + 1].at
    BY <1>2, <2>2 DEF BufferInv, Packed, RecordEnd
  <2>4. readOffset' = readOffset + ActionSize + n
    BY <1>1, <2>2, <2>3 DEF Skip, Readable
  <2>. QED BY <1>1, <2>3, <2>4
<1>. QED BY <1>4, <1>5, <1>6 DEF BufferInv

\* So does what processConnEvent takes for an action out of step.
LEMMA StrayKeeps ==
    ASSUME BufferInv, NEW n \in 0..TagRange - 1, TakeStray(n)
    PROVE  BufferInv'
<1>1. /\ capacity \in Nat /\ dataLength \in Nat /\ readOffset \in Nat
      /\ readOffset <= dataLength /\ ActionSize \in Nat \ {0} /\ TagRange \in Nat \ {0}
  BY BufferNumbers DEF BufferInv
<1>2. UNCHANGED <<capacity, dataLength, memory>> /\ pass' \in {"no", "reading", "callback"}
  BY DEF TakeStray
<1>3. readOffset' \in Nat /\ readOffset' <= dataLength
  BY <1>1 DEF TakeStray, Skip, Readable
<1>4. BufferTypeOK' /\ WriteFits' /\ capacity' >= InitialCapacity
  BY <1>1, <1>2, <1>3 DEF BufferInv, BufferTypeOK, WriteFits
<1>5. Packed'
  BY <1>2 DEF BufferInv, Packed, RecordEnd
<1>6. Misled /\ readOffset <= readOffset'
  BY <1>1 DEF TakeStray, Skip, Readable, BufferInv, InStep
<1>7. InStep'
  <2>1. \A j \in 1..Len(memory) : memory[j].at \in Nat
    BY RecordsType DEF BufferInv
  <2>2. Misled'
    BY <1>1, <1>2, <1>3, <1>6, <2>1 DEF Misled
  <2>. QED BY <2>2 DEF InStep
<1>. QED BY <1>4, <1>5, <1>7 DEF BufferInv

\* So does Reset.
LEMMA EmptiedKeeps ==
    ASSUME BufferInv, Emptied, UNCHANGED capacity, pass' \in {"no", "reading", "callback"}
    PROVE  BufferInv'
BY BufferNumbers DEF BufferInv, Emptied, BufferTypeOK, WriteFits, Packed, InStep, Misled

\* So do the steps that begin a pass or end a callback.
LEMMA OnlyPassChanges ==
    ASSUME BufferInv, UNCHANGED <<capacity, dataLength, readOffset, memory>>,
           pass' \in {"no", "reading", "callback"}
    PROVE  BufferInv'
BY DEF BufferInv, BufferTypeOK, WriteFits, Packed, RecordEnd, InStep, Misled, RecordAt

\* The invariant is inductive.
LEMMA BufferStep == BufferInv /\ [BufferNext]_bufferVars => BufferInv'
<1>1. SUFFICES ASSUME BufferInv, [BufferNext]_bufferVars
               PROVE  BufferInv'
  OBVIOUS
<1>2. BufferTypeOK /\ ContextSize \in Nat /\ Lengths \subseteq Nat /\ ContextSize < TagRange
  BY <1>1, BufferAssumption DEF BufferInv
<1>3. CASE Senders
  <2>1. ASSUME NEW n \in Lengths, PutSend(n) PROVE BufferInv'
    BY <1>1, <1>2, <2>1, PutKeeps DEF PutSend
  <2>2. CASE PutConnect
    BY <1>1, <1>2, <2>2, PutKeeps DEF PutConnect
  <2>3. CASE PutClose
    BY <1>1, <1>2, <2>3, PutKeeps DEF PutClose
  <2>. QED BY <1>3, <2>1, <2>2, <2>3 DEF Senders
<1>4. ASSUME NEW j \in 1..Len(memory), NEW there \in BOOLEAN, TakeSend(j, there)
      PROVE  BufferInv'
  <2>1. memory[j].length \in Nat
    BY <1>2, RecordsType
  <2>2. /\ Tag(memory[j].length) \in Nat
        /\ memory[j].length < TagRange => Tag(memory[j].length) = memory[j].length
    BY <2>1, TagOfShort
  <2>. QED BY <1>1, <1>2, <1>4, <2>2, TakeKeeps DEF TakeSend, BufferTypeOK
<1>5. ASSUME NEW j \in 1..Len(memory), NEW there \in BOOLEAN, TakeClose(j, there)
      PROVE  BufferInv'
  <2>1. memory[j].length = 0 /\ Taken("Close", j) /\ Skip(ActionSize) /\ pass' \in {"no", "reading", "callback"}
    BY <1>1, <1>5 DEF TakeClose, Taken, BufferInv, Packed
  <2>2. Skip(ActionSize + 0)
    BY <2>1, BufferAssumption
  <2>. QED BY <1>1, <2>1, <2>2, TakeKeeps
<1>6. ASSUME NEW j \in 1..Len(memory), TakeConnect(j)
      PROVE  BufferInv'
  <2>1. /\ memory[j].length = ContextSize /\ Taken("Connect", j)
        /\ Skip(ActionSize + ContextSize) /\ pass' \in {"no", "reading", "callback"}
    BY <1>1, <1>6 DEF TakeConnect, Taken, BufferInv, Packed
  <2>. QED BY <1>1, <1>2, <2>1, TakeKeeps
<1>7. ASSUME NEW n \in 0..TagRange - 1, TakeStray(n) PROVE BufferInv'
  BY <1>1, <1>7, StrayKeeps
<1>8. CASE DropRest \/ EndPass
  BY <1>1, <1>8, EmptiedKeeps DEF DropRest, EndPass
<1>9. CASE BeginPass \/ CallbackEnds \/ UNCHANGED bufferVars
  BY <1>1, <1>2, <1>9, OnlyPassChanges DEF BeginPass, CallbackEnds, bufferVars, BufferTypeOK
<1>. QED BY <1>1, <1>3, <1>4, <1>5, <1>6, <1>7, <1>8, <1>9 DEF BufferNext, Reads

\* The inductive invariant of the event buffer holds in every reachable
\* state.
THEOREM BufferInvariant == BufferSpec => []BufferInv
<1>1. BufferInit => BufferInv
  BY BufferInitially
<1>2. BufferInv /\ [BufferNext]_bufferVars => BufferInv'
  BY BufferStep
<1>. QED BY <1>1, <1>2, PTL DEF BufferSpec

\* Every variable keeps its type, and m_uReadOffset never passes
\* m_uDataLength, although Read is asked for whatever uTag says.
THEOREM BufferTypeCorrect == BufferSpec => []BufferTypeOK
<1>1. BufferInv => BufferTypeOK
  BY DEF BufferInv
<1>. QED BY <1>1, BufferInvariant, PTL

\* No Write goes past the end of the buffer, if no packet is longer than the
\* buffer was to begin with.
THEOREM WritesFit == BufferSpec => []WriteFits
<1>1. BufferInv => WriteFits
  BY DEF BufferInv
<1>. QED BY <1>1, BufferInvariant, PTL

\* processConnEvent reads its actions where the senders wrote them, until it
\* takes a packet too long for uTag.
THEOREM ReaderInStep == BufferSpec => []InStep
<1>1. BufferInv => InStep
  BY DEF BufferInv
<1>. QED BY <1>1, BufferInvariant, PTL
-----------------------------------------------------------------------------
(* A queue of actions.                                                     *)

\* Each record lies behind those before it.
Ordered ==
    \A i, j \in 1..Len(memory) : i < j => RecordEnd(memory[i]) <= memory[j].at

\* A record ends behind its beginning.
LEMMA RecordEnds ==
    ASSUME BufferInv, NEW j \in 1..Len(memory)
    PROVE  /\ memory[j].at \in Nat /\ RecordEnd(memory[j]) \in Nat
           /\ memory[j].at < RecordEnd(memory[j])
           /\ RecordEnd(memory[j]) <= dataLength
<1>1. memory[j].at \in Nat /\ memory[j].length \in Nat /\ RecordEnd(memory[j]) \in Nat
  BY RecordsType, RecordEndType DEF BufferInv
<1>2. \A a, n \in Nat, s \in Nat \ {0} : a < a + s + n
  OBVIOUS
<1>3. memory[j].at < RecordEnd(memory[j])
  BY <1>1, <1>2, BufferAssumption DEF RecordEnd
<1>. QED BY <1>1, <1>3 DEF BufferInv, Packed

\* The reader in step goes to the end of the record.
LEMMA SkipsRecord ==
    ASSUME BufferInv, NEW op, NEW j \in 1..Len(memory), Taken(op, j),
           Skip(ActionSize + memory[j].length)
    PROVE  readOffset' = RecordEnd(memory[j])
<1>1. /\ dataLength \in Nat /\ readOffset \in Nat /\ readOffset <= dataLength
      /\ ActionSize \in Nat
  BY BufferNumbers DEF BufferInv
<1>2. memory[j].at = readOffset /\ memory[j].length \in Nat
  BY RecordsType DEF Taken, RecordAt, BufferInv
<1>3. readOffset + ActionSize + memory[j].length <= dataLength
  BY <1>2, RecordEnds DEF RecordEnd
<1>. QED BY <1>1, <1>2, <1>3 DEF Skip, Readable, RecordEnd

\* What a step does to the records.
LEMMA MemoryStep ==
    ASSUME BufferInv, [BufferNext]_bufferVars
    PROVE  \/ memory' = memory
           \/ memory' = <<>>
           \/ \E op \in {"Send", "Connect", "Close"}, n \in Nat :
                 memory' = Append(memory, Record(op, dataLength, n))
<1>1. CASE Senders
  <2>1. ASSUME NEW n \in Lengths, PutSend(n)
        PROVE  n \in Nat /\ memory' = Append(memory, Record("Send", dataLength, n))
    BY <2>1, BufferAssumption DEF PutSend, Put
  <2>2. CASE PutConnect
    <3>1. memory' = Append(memory, Record("Connect", dataLength, ContextSize))
      BY <2>2 DEF PutConnect, Put
    <3>. QED BY <3>1, BufferAssumption
  <2>3. CASE PutClose
    BY <2>3 DEF PutClose, Put
  <2>. QED BY <1>1, <2>1, <2>2, <2>3 DEF Senders
<1>2. CASE Reads
  BY <1>2 DEF Reads, BeginPass, DropRest, CallbackEnds, EndPass, Emptied, TakeSend, TakeClose,
              TakeConnect, TakeStray, Taken
<1>3. CASE UNCHANGED bufferVars
  BY <1>3 DEF bufferVars
<1>. QED BY <1>1, <1>2, <1>3 DEF BufferNext

\* Records stay in order.
LEMMA OrderedStep ==
    ASSUME BufferInv, Ordered, [BufferNext]_bufferVars
    PROVE  Ordered'
<1>1. CASE memory' = memory
  BY <1>1 DEF Ordered, RecordEnd
<1>2. CASE memory' = <<>>
  BY <1>2 DEF Ordered
<1>3. ASSUME NEW op \in {"Send", "Connect", "Close"}, NEW n \in Nat,
             memory' = Append(memory, Record(op, dataLength, n))
      PROVE  Ordered'
  <2>. DEFINE r == Record(op, dataLength, n)
  <2>1. memory \in Seq(RecordType) /\ Len(memory) \in Nat /\ dataLength \in Nat
    BY BufferNumbers DEF BufferInv, BufferTypeOK, RecordType
  <2>2. r \in RecordType /\ r.at = dataLength
    BY <2>1 DEF Record, RecordType
  <2>3. /\ Len(memory') = Len(memory) + 1 /\ memory'[Len(memory) + 1] = r
        /\ \A i \in 1..Len(memory) : memory'[i] = memory[i]
    BY <1>3, <2>1, <2>2
  <2>4. ASSUME NEW i \in 1..Len(memory) + 1, NEW j \in 1..Len(memory) + 1, i < j
        PROVE  RecordEnd(memory'[i]) <= memory'[j].at
    <3>1. i \in 1..Len(memory) /\ (j \in 1..Len(memory) \/ j = Len(memory) + 1)
      BY <2>1, <2>4
    <3>2. CASE j \in 1..Len(memory)
      BY <2>3, <2>4, <3>1, <3>2 DEF Ordered
    <3>3. CASE j = Len(memory) + 1
      <4>1. RecordEnd(memory[i]) <= dataLength
        BY <3>1, RecordEnds
      <4>. QED BY <2>2, <2>3, <3>1, <3>3, <4>1
    <3>. QED BY <3>1, <3>2, <3>3
  <2>. QED BY <2>3, <2>4 DEF Ordered, RecordEnd
<1>. QED BY <1>1, <1>2, <1>3, MemoryStep


\* Until it begins again, the buffer stays without a promise.
LEMMA StaysMisled ==
    ASSUME BufferTypeOK, UNCHANGED memory, readOffset' \in Nat, readOffset <= readOffset', Misled
    PROVE  Misled'
<1>1. \A j \in 1..Len(memory) : memory[j].at \in Nat
  BY RecordsType
<1>2. readOffset \in Nat
  BY BufferNumbers
<1>. QED BY <1>1, <1>2 DEF Misled

\* A record put into the buffer comes behind all that is ahead.
LEMMA PutIsPut ==
    ASSUME BufferInv, NEW op \in {"Send", "Connect", "Close"}, NEW n \in Nat, Put(op, n)
    PROVE  [Queue!QueueNext]_(Queue!queueVars)
<1>. DEFINE m == Len(memory)
            r == Record(op, dataLength, n)
            left == Picked(memory, Ahead)
<1>1. /\ memory' = Append(memory, r) /\ readOffset' = readOffset
      /\ dataLength \in Nat /\ readOffset \in Nat /\ readOffset <= dataLength /\ m \in Nat
  BY BufferNumbers DEF Put, BufferInv
<1>2. /\ memory \in Seq(RecordType) /\ Ahead \subseteq 1..Len(memory)
  BY DEF BufferInv, BufferTypeOK, RecordType, Ahead
<1>3. r \in RecordType /\ r.at = dataLength
  BY <1>1 DEF Record, RecordType
<1>4. /\ Len(memory') = m + 1 /\ memory'[m + 1] = r
      /\ \A i \in 1..m : memory'[i] = memory[i]
  BY <1>1, <1>2, <1>3
<1>5. Misled' <=> Misled
  BY <1>1, <1>3, <1>4 DEF Misled
<1>6. Ahead' = Ahead \cup {m + 1}
  <2>1. Ahead' = {j \in 1..m + 1 : memory'[j].at >= readOffset}
    BY <1>1, <1>4 DEF Ahead
  <2>2. \A i : i \in 1..m + 1 <=> i \in 1..m \/ i = m + 1
    BY <1>1
  <2>3. dataLength >= readOffset
    BY <1>1
  <2>. QED BY <1>3, <1>4, <2>1, <2>2, <2>3 DEF Ahead
<1>7. Picked(memory', Ahead') = Append(left, r)
  <2>1. Picked(Append(memory, r), Ahead \cup {m + 1}) = Append(left, r)
    BY <1>2, <1>3, PickedAppend
  <2>. QED BY <1>1, <1>6, <2>1
<1>8. left \in Seq(RecordType)
  BY <1>2, PickedType
<1>9. CASE Misled
  BY <1>5, <1>9 DEF Queue!queueVars
<1>10. CASE ~Misled
  <2>. DEFINE q == Append(left, r)
  <2>1. /\ Len(q) = Len(left) + 1 /\ q[Len(left) + 1] = r
    BY <1>3, <1>8
  <2>. HIDE DEF q, left
  <2>2. (IF Misled THEN <<>> ELSE Picked(memory, Ahead)) = left
    BY <1>10 DEF left
  <2>3. (IF Misled THEN <<>> ELSE Picked(memory, Ahead))' = q
    BY <1>5, <1>7, <1>10 DEF left, q
  <2>4. q = Append(left, q[Len(left) + 1])
    BY <2>1 DEF q
  <2>. QED BY <1>5, <1>10, <2>1, <2>2, <2>3, <2>4 DEF Queue!QueueNext, Queue!Put
<1>. QED BY <1>9, <1>10

\* The record that is read is the first one ahead, and the next one begins
\* where it ends.
LEMMA FirstAhead ==
    ASSUME BufferInv, Ordered, NEW op, NEW j \in 1..Len(memory), Taken(op, j)
    PROVE  /\ memory[j] \in RecordType /\ memory[j].at = readOffset
           /\ Picked(memory, Ahead) = <<memory[j]>> \o Picked(memory, Ahead \ {j})
           /\ Picked(memory, Ahead \ {j}) \in Seq(RecordType)
           /\ \A i \in 1..Len(memory) :
                 /\ memory[i].at >= readOffset <=> i >= j
                 /\ memory[i].at >= RecordEnd(memory[j]) <=> i > j
<1>1. /\ memory[j].at = readOffset /\ memory[j] \in RecordType
      /\ readOffset \in Nat /\ Len(memory) \in Nat
      /\ RecordEnd(memory[j]) \in Nat /\ readOffset < RecordEnd(memory[j])
  BY RecordEnds, RecordsType, BufferNumbers DEF Taken, RecordAt, BufferInv
<1>2. ASSUME NEW i \in 1..Len(memory)
      PROVE  /\ memory[i].at >= readOffset <=> i >= j
             /\ memory[i].at >= RecordEnd(memory[j]) <=> i > j
  <2>1. /\ memory[i].at \in Nat /\ RecordEnd(memory[i]) \in Nat
        /\ memory[i].at < RecordEnd(memory[i])
    BY RecordEnds
  <2>2. i < j => RecordEnd(memory[i]) <= readOffset
    BY <1>1 DEF Ordered
  <2>3. j < i => RecordEnd(memory[j]) <= memory[i].at
    BY DEF Ordered
  <2>4. CASE i < j
    BY <1>1, <2>1, <2>2, <2>4
  <2>5. CASE i = j
    BY <1>1, <2>5
  <2>6. CASE j < i
    BY <1>1, <2>1, <2>3, <2>6
  <2>. QED BY <1>1, <2>4, <2>5, <2>6
<1>3. /\ memory \in Seq(RecordType) /\ Ahead \subseteq 1..Len(memory)
      /\ j \in Ahead /\ Ahead \ {j} \subseteq j + 1..Len(memory)
  BY <1>1, <1>2 DEF BufferInv, BufferTypeOK, RecordType, Ahead
<1>4. (Ahead \ {j}) \cup {j} = Ahead
  BY <1>3
<1>5. Picked(memory, (Ahead \ {j}) \cup {j}) = <<memory[j]>> \o Picked(memory, Ahead \ {j})
  BY <1>3, PickedFirst
<1>6. Picked(memory, Ahead \ {j}) \in Seq(RecordType)
  <2>1. Ahead \ {j} \subseteq 1..Len(memory)
    BY <1>3
  <2>. QED BY <1>3, <2>1, PickedType
<1>. QED BY <1>1, <1>2, <1>4, <1>5, <1>6

\* What is behind one element.
LEMMA HeadAndTail ==
    ASSUME NEW T, NEW e \in T, NEW s \in Seq(T)
    PROVE  /\ <<e>> \o s # <<>>
           /\ Head(<<e>> \o s) = e
           /\ Tail(<<e>> \o s) = s
<1>1. <<e>> \in Seq(T) /\ Len(<<e>>) = 1 /\ <<e>>[1] = e
  OBVIOUS
<1>2. /\ <<e>> \o s \in Seq(T) /\ Len(<<e>> \o s) = 1 + Len(s)
      /\ (<<e>> \o s)[1] = e /\ \A k \in 1..Len(s) : (<<e>> \o s)[1 + k] = s[k]
  BY <1>1, Parts
<1>. DEFINE q == <<e>> \o s
<1>. HIDE DEF q
<1>3. q # <<>> /\ Head(q) = e /\ Tail(q) \in Seq(T) /\ Len(Tail(q)) = Len(s)
      /\ \A k \in 1..Len(s) : Tail(q)[k] = s[k]
  BY <1>2 DEF q
<1>4. Tail(q) = s
  BY <1>3, SameSequence
<1>. QED BY <1>3, <1>4 DEF q

\* A record taken was the first in the queue; one too long for uTag makes
\* the reader lose its place.
LEMMA TakenIsTaken ==
    ASSUME BufferInv, Ordered, NEW op, NEW j \in 1..Len(memory), Taken(op, j),
           NEW n \in Nat, Skip(ActionSize + n),
           memory[j].length < TagRange => n = memory[j].length
    PROVE  [Queue!QueueNext]_(Queue!queueVars)
<1>. DEFINE rest == Picked(memory, Ahead \ {j})
            Sound == [op : {"Send", "Connect", "Close"}, at : Nat, length : 0..TagRange - 1]
<1>1. /\ readOffset \in Nat /\ dataLength \in Nat /\ readOffset <= dataLength
      /\ ActionSize \in Nat \ {0} /\ TagRange \in Nat
  BY BufferNumbers DEF BufferInv
<1>2. UNCHANGED <<capacity, dataLength, memory>> /\ Readable > 0
  BY DEF Taken
<1>3. readOffset' \in Nat /\ readOffset < readOffset'
  BY <1>1, <1>2 DEF Skip, Readable
<1>4. /\ memory[j] \in RecordType /\ memory[j].at = readOffset
      /\ Picked(memory, Ahead) = <<memory[j]>> \o rest /\ rest \in Seq(RecordType)
      /\ \A i \in 1..Len(memory) :
            /\ memory[i].at >= readOffset <=> i >= j
            /\ memory[i].at >= RecordEnd(memory[j]) <=> i > j
  BY FirstAhead
<1>5. /\ memory[j].length \in Nat
      /\ memory[j] \in Sound <=> memory[j].length < TagRange
  BY <1>1, <1>4 DEF RecordType
<1>. HIDE DEF rest, Sound
<1>6. /\ <<memory[j]>> \o rest # <<>>
      /\ Head(<<memory[j]>> \o rest) = memory[j]
      /\ Tail(<<memory[j]>> \o rest) = rest
  BY <1>4, HeadAndTail
<1>7. CASE Misled
  <2>1. Misled'
    BY <1>1, <1>2, <1>3, <1>7, StaysMisled DEF BufferInv
  <2>. QED BY <1>7, <2>1 DEF Queue!queueVars
<1>8. CASE ~Misled /\ memory[j].length < TagRange
  <2>1. readOffset' = RecordEnd(memory[j])
    BY <1>8, SkipsRecord
  <2>2. Ahead' = Ahead \ {j}
    BY <1>2, <1>4, <2>1, BufferNumbers DEF Ahead, BufferInv
  <2>3. ~Misled'
    <3>1. ASSUME NEW i \in 1..Len(memory), memory[i].length >= TagRange
          PROVE  ~(memory[i].at < readOffset')
      <4>1. /\ memory[i].at \in Nat /\ ~(memory[i].at < readOffset)
            /\ memory[i].length \in Nat
        BY <1>8, <3>1, RecordsType DEF Misled, BufferInv
      <4>2. i # j
        BY <1>1, <1>5, <1>8, <3>1
      <4>3. memory[i].at >= RecordEnd(memory[j])
        BY <1>1, <1>4, <4>1, <4>2
      <4>. QED BY <1>3, <2>1, <4>1, <4>3
    <3>. QED BY <1>2, <3>1 DEF Misled
  <2>4. (IF Misled THEN <<>> ELSE Picked(memory, Ahead)) = <<memory[j]>> \o rest
    BY <1>4, <1>8
  <2>5. (IF Misled THEN <<>> ELSE Picked(memory, Ahead))' = rest
    BY <1>2, <2>2, <2>3 DEF rest
  <2>6. Queue!Take
    <3>1. Misled' = Misled
      BY <1>8, <2>3 DEF Misled
    <3>2. memory[j] \in [op : {"Send", "Connect", "Close"}, at : Nat, length : 0..TagRange - 1]
      BY <1>5, <1>8 DEF Sound
    <3>. QED BY <1>6, <1>8, <2>4, <2>5, <3>1, <3>2 DEF Queue!Take
  <2>. QED BY <2>6 DEF Queue!QueueNext
<1>9. CASE ~Misled /\ ~(memory[j].length < TagRange)
  <2>1. Misled'
    BY <1>1, <1>2, <1>3, <1>4, <1>5, <1>9 DEF Misled
  <2>2. (IF Misled THEN <<>> ELSE Picked(memory, Ahead)) = <<memory[j]>> \o rest
    BY <1>4, <1>9
  <2>3. Queue!Lose
    BY <1>5, <1>6, <1>9, <2>1, <2>2 DEF Queue!Lose, Sound
  <2>. QED BY <2>3 DEF Queue!QueueNext
<1>. QED BY <1>7, <1>8, <1>9

\* What is no record is read only by a reader that has lost its place.
LEMMA StrayIsMisled ==
    ASSUME BufferInv, RecordAt(readOffset) = {}, Readable > 0 \/ Readable >= ActionSize
    PROVE  Misled
BY BufferNumbers DEF BufferInv, InStep, Readable

\* Reset is a new beginning, and drops nothing of a queue that is in order.
LEMMA ResetIsRecover ==
    ASSUME BufferInv, Emptied, Misled \/ Readable = 0
    PROVE  [Queue!QueueNext]_(Queue!queueVars)
<1>1. memory' = <<>> /\ Misled' = FALSE /\ Ahead' = {}
  BY DEF Emptied, Misled, Ahead
<1>2. (IF Misled THEN <<>> ELSE Picked(memory, Ahead))' = <<>>
  <2>1. Picked(memory', {}) = <<>>
    BY PickedNone
  <2>. QED BY <1>1, <2>1
<1>3. CASE Misled
  <2>1. Queue!Recover
    BY <1>1, <1>2, <1>3 DEF Queue!Recover
  <2>. QED BY <2>1 DEF Queue!QueueNext
<1>4. CASE ~Misled
  <2>1. readOffset = dataLength /\ dataLength \in Nat
    BY <1>4, BufferNumbers DEF BufferInv, Readable
  <2>2. Ahead = {}
    BY <2>1, RecordEnds DEF Ahead
  <2>3. (IF Misled THEN <<>> ELSE Picked(memory, Ahead)) = <<>>
    BY <1>4, <2>2, PickedNone
  <2>4. Misled' = Misled
    BY <1>1, <1>4 DEF Misled
  <2>. QED BY <1>2, <2>3, <2>4 DEF Queue!queueVars
<1>. QED BY <1>3, <1>4

\* Every step of the buffer is one of the queue, or leaves it as it is.
LEMMA QueueSimulation ==
    ASSUME BufferInv, Ordered, [BufferNext]_bufferVars
    PROVE  [Queue!QueueNext]_(Queue!queueVars)
<1>1. BufferTypeOK /\ ContextSize \in Nat /\ Lengths \subseteq Nat /\ ActionSize \in Nat
  BY BufferAssumption DEF BufferInv
<1>2. CASE Senders
  <2>1. ASSUME NEW n \in Lengths, PutSend(n) PROVE [Queue!QueueNext]_(Queue!queueVars)
    BY <1>1, <2>1, PutIsPut DEF PutSend
  <2>2. CASE PutConnect
    BY <1>1, <2>2, PutIsPut DEF PutConnect
  <2>3. CASE PutClose
    BY <1>1, <2>3, PutIsPut DEF PutClose
  <2>. QED BY <1>2, <2>1, <2>2, <2>3 DEF Senders
<1>3. ASSUME NEW j \in 1..Len(memory), NEW there \in BOOLEAN, TakeSend(j, there)
      PROVE  [Queue!QueueNext]_(Queue!queueVars)
  <2>1. memory[j].length \in Nat
    BY <1>1, RecordsType
  <2>2. /\ Tag(memory[j].length) \in Nat
        /\ memory[j].length < TagRange => Tag(memory[j].length) = memory[j].length
    BY <2>1, TagOfShort
  <2>. QED BY <1>3, <2>2, TakenIsTaken DEF TakeSend
<1>4. ASSUME NEW j \in 1..Len(memory), NEW there \in BOOLEAN, TakeClose(j, there)
      PROVE  [Queue!QueueNext]_(Queue!queueVars)
  <2>1. memory[j].length = 0 /\ Taken("Close", j) /\ Skip(ActionSize)
    BY <1>4 DEF TakeClose, Taken, BufferInv, Packed
  <2>2. Skip(ActionSize + 0)
    BY <1>1, <2>1
  <2>. QED BY <2>1, <2>2, TakenIsTaken
<1>5. ASSUME NEW j \in 1..Len(memory), TakeConnect(j)
      PROVE  [Queue!QueueNext]_(Queue!queueVars)
  <2>1. memory[j].length = ContextSize /\ Taken("Connect", j) /\ Skip(ActionSize + ContextSize)
    BY <1>5 DEF TakeConnect, Taken, BufferInv, Packed
  <2>. QED BY <1>1, <2>1, TakenIsTaken
<1>6. ASSUME NEW n \in 0..TagRange - 1, TakeStray(n)
      PROVE  [Queue!QueueNext]_(Queue!queueVars)
  <2>1. Misled
    BY <1>6, StrayIsMisled DEF TakeStray
  <2>2. memory' = memory /\ readOffset' \in Nat /\ readOffset <= readOffset'
    BY <1>1, <1>6, BufferNumbers DEF TakeStray, Skip, Readable
  <2>3. Misled'
    BY <1>1, <2>1, <2>2, StaysMisled
  <2>4. Misled' = Misled
    BY <2>1, <2>3 DEF Misled
  <2>. QED BY <2>1, <2>4 DEF Queue!queueVars
<1>7. CASE DropRest
  <2>1. Misled /\ Emptied
    BY <1>7, StrayIsMisled DEF DropRest
  <2>. QED BY <2>1, ResetIsRecover
<1>8. CASE EndPass
  BY <1>8, ResetIsRecover DEF EndPass
<1>9. CASE BeginPass \/ CallbackEnds \/ UNCHANGED bufferVars
  <2>1. UNCHANGED <<memory, readOffset>>
    BY <1>9 DEF BeginPass, CallbackEnds, bufferVars
  <2>2. Misled' = Misled /\ Ahead' = Ahead
    BY <2>1 DEF Misled, Ahead
  <2>. QED BY <2>1, <2>2 DEF Queue!queueVars
<1>. QED BY <1>2, <1>3, <1>4, <1>5, <1>6, <1>7, <1>8, <1>9 DEF BufferNext, Reads

\* m_xEventBuffer, in bytes, is the queue of actions that its users take it
\* for: what SendPacketToUser, Connect and CloseUserConnection write is what
\* processConnEvent finds, action by action and in order, up to the first
\* packet that is too long for uTag, and again after the next Reset.
THEOREM BufferImplementsQueue == BufferSpec => QueueSpec
<1>1. BufferInit => Ordered /\ Queue!QueueInit
  <2>. SUFFICES ASSUME BufferInit PROVE Ordered /\ Queue!QueueInit
    OBVIOUS
  <2>1. memory = <<>>
    BY DEF BufferInit
  <2>2. Misled = FALSE /\ Ahead = {} /\ Ordered
    BY <2>1 DEF Misled, Ahead, Ordered
  <2>. QED BY <2>2, PickedNone DEF Queue!QueueInit
<1>2. BufferInv /\ Ordered /\ [BufferNext]_bufferVars => Ordered'
  BY OrderedStep
<1>3. BufferInv /\ Ordered /\ [BufferNext]_bufferVars => [Queue!QueueNext]_(Queue!queueVars)
  BY QueueSimulation
<1>. QED BY <1>1, <1>2, <1>3, BufferInvariant, PTL DEF BufferSpec, QueueSpec, Queue!QueueSpec
=============================================================================
