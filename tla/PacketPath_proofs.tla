--------------------------- MODULE PacketPath_proofs ---------------------------
(***************************************************************************)
(* The composition keeps what its parts promise: PathSpec implements       *)
(* BufferSpec and ReaderSpec, so that the theorems about the event buffer  *)
(* and about the reader hold of a packet's whole way.  And nothing that is *)
(* posted is forgotten on the way, however many packets there are.         *)
(***************************************************************************)
EXTENDS PacketPath, EventBuffer_proofs, PacketReader_proofs, Lists_proofs

\* What ties the parts together: whether there is a connection is known, and
\* the event buffer keeps its invariant.
PathInv == linked \in BOOLEAN /\ BufferInv

\* Every head the sender puts before a packet is one of Heads.
LEMMA HeadsCover ==
    ASSUME NEW n \in Lengths \cup 0..TagRange - 1
    PROVE  HeaderLength + n \in Heads
BY PathAssumption

\* uTag is less than TagRange.
LEMMA TagInRange ==
    ASSUME NEW n \in Nat
    PROVE  Tag(n) \in 0..TagRange - 1
BY BufferAssumption DEF Tag

\* Every step of the path is a step of the event buffer, or leaves it alone.
LEMMA BufferSimulation ==
    ASSUME linked \in BOOLEAN, [PathNext]_pathVars
    PROVE  [BufferNext]_bufferVars
<1>1. ASSUME NEW n \in Lengths, Post(n) PROVE BufferNext
  BY <1>1 DEF Post, BufferNext, Senders
<1>2. ASSUME NEW n \in Lengths, SyncSend(n) PROVE UNCHANGED bufferVars
  BY <1>2 DEF SyncSend
<1>3. CASE PostOther
  BY <1>3 DEF PostOther, BufferNext, Senders
<1>4. CASE PassStep
  <2>1. ASSUME NEW j \in 1..Len(memory), Forward(j) PROVE BufferNext
    BY <2>1 DEF Forward, BufferNext, Reads
  <2>2. ASSUME NEW j \in 1..Len(memory), TakeOther(j) PROVE BufferNext
    BY <2>2 DEF TakeOther, BufferNext, Reads
  <2>3. ASSUME NEW n \in 0..TagRange - 1, Misread(n) PROVE BufferNext
    BY <2>3 DEF Misread, BufferNext, Reads
  <2>4. ASSUME BeginPass \/ DropRest \/ CallbackEnds \/ EndPass PROVE BufferNext
    BY <2>4 DEF BufferNext, Reads
  <2>. QED BY <1>4, <2>1, <2>2, <2>3, <2>4 DEF PassStep
<1>5. CASE SenderCloses
  BY <1>5 DEF SenderCloses
<1>6. CASE Arrive \/ ReceiverReads \/ ReceiverCloses
  BY <1>6 DEF Arrive, ReceiverReads, ReceiverCloses
<1>7. CASE UNCHANGED pathVars
  BY <1>7 DEF pathVars
<1>. QED BY <1>1, <1>2, <1>3, <1>4, <1>5, <1>6, <1>7 DEF PathNext

\* The sender's connection stays there or not.
LEMMA LinkedStep ==
    ASSUME linked \in BOOLEAN, [PathNext]_pathVars
    PROVE  linked' \in BOOLEAN
BY DEF PathNext, pathVars, Post, SyncSend, PostOther, PassStep, Forward, TakeOther, Misread,
       SenderCloses, Arrive, ReceiverReads, ReceiverCloses

\* The invariant of the composition.
LEMMA PathInvariant == PathSpec => []PathInv
<1>1. PathInit => PathInv
  BY BufferInitially DEF PathInit, PathInv
<1>2. PathInv /\ [PathNext]_pathVars => PathInv'
  BY BufferSimulation, LinkedStep, BufferStep DEF PathInv
<1>. QED BY <1>1, <1>2, PTL DEF PathSpec

\* Emit is a packet written to the stream of the other engine, or nothing.
LEMMA EmitSimulation ==
    ASSUME NEW n \in Lengths \cup 0..TagRange - 1, NEW from, Emit(n, from)
    PROVE  ReaderNext \/ UNCHANGED readerVars
BY HeadsCover DEF Emit, ReaderNext

\* Every step of the path is a step of the reader, or leaves it alone.
LEMMA ReaderSimulation ==
    ASSUME PathInv, [PathNext]_pathVars
    PROVE  [ReaderNext]_readerVars
<1>1. ASSUME NEW n \in Lengths, Post(n) PROVE UNCHANGED readerVars
  BY <1>1 DEF Post
<1>2. ASSUME NEW n \in Lengths, SyncSend(n) PROVE [ReaderNext]_readerVars
  BY <1>2, EmitSimulation DEF SyncSend
<1>3. CASE PostOther
  BY <1>3 DEF PostOther
<1>4. CASE PassStep
  <2>1. ASSUME NEW j \in 1..Len(memory), Forward(j) PROVE [ReaderNext]_readerVars
    <3>1. memory[j].length \in Nat
      BY RecordsType DEF PathInv, BufferInv
    <3>2. Tag(memory[j].length) \in 0..TagRange - 1
      BY <3>1, TagInRange
    <3>. QED BY <2>1, <3>2, EmitSimulation DEF Forward
  <2>2. ASSUME NEW j \in 1..Len(memory), TakeOther(j) PROVE UNCHANGED readerVars
    BY <2>2 DEF TakeOther
  <2>3. ASSUME NEW n \in 0..TagRange - 1, Misread(n) PROVE [ReaderNext]_readerVars
    BY <2>3, EmitSimulation DEF Misread
  <2>. QED BY <1>4, <2>1, <2>2, <2>3 DEF PassStep
<1>5. CASE SenderCloses
  BY <1>5 DEF SenderCloses
<1>6. CASE Arrive
  BY <1>6 DEF Arrive, ReaderNext
<1>7. CASE ReceiverReads
  BY <1>7 DEF ReceiverReads, ReaderNext
<1>8. CASE ReceiverCloses
  BY <1>8 DEF ReceiverCloses, ReaderNext
<1>9. CASE UNCHANGED pathVars
  BY <1>9 DEF pathVars
<1>. QED BY <1>1, <1>2, <1>3, <1>4, <1>5, <1>6, <1>7, <1>8, <1>9 DEF PathNext

-----------------------------------------------------------------------------
\* SendPacketToUser, SyncSendPacketToUser, CloseUserConnection, Connect and
\* processConnEvent use m_xEventBuffer as EventBuffer says.
THEOREM PathImplementsBuffer == PathSpec => BufferSpec
<1>1. PathInit => BufferInit
  BY DEF PathInit
<1>2. PathInv /\ [PathNext]_pathVars => [BufferNext]_bufferVars
  BY BufferSimulation DEF PathInv
<1>. QED BY <1>1, <1>2, PathInvariant, PTL DEF PathSpec, BufferSpec

\* What the senders make the worker write is a stream that PacketReader
\* accepts as input.
THEOREM PathImplementsReader == PathSpec => ReaderSpec
<1>1. PathInit => ReaderInit
  BY DEF PathInit
<1>2. PathInv /\ [PathNext]_pathVars => [ReaderNext]_readerVars
  BY ReaderSimulation
<1>. QED BY <1>1, <1>2, PathInvariant, PTL DEF PathSpec, ReaderSpec

\* Whatever is done with the connection and its packets meanwhile, the event
\* buffer is a queue of actions to the senders and to processConnEvent.
THEOREM PathImplementsQueue == PathSpec => QueueSpec
BY PathImplementsBuffer, BufferImplementsQueue, PTL

\* However packets are sent, queued or at once, too long or empty, the other
\* application is given the acceptable ones among those that were written
\* to the connection, whole and in order.
THEOREM PathImplementsChannel == PathSpec => ChannelSpec
BY PathImplementsReader, ImplementsChannel, PTL
-----------------------------------------------------------------------------
(* Nothing is forgotten.                                                   *)

\* It is known of each packet in the stream where it came from.
OriginInv ==
    /\ posted \in Seq(Nat)
    /\ origin \in Seq({"queue", "sync", "stray"})
    /\ Len(origin) = Len(stream)

\* The reader stays in step, unless an oversize packet was posted.
ShortRecords == OversizePosted \/ \A j \in 1..Len(memory) : memory[j].length < TagRange

\* The inductive invariant, relative to PathInv and ReaderTypeOK.
DeliveryInv == OriginInv /\ Ordered /\ ShortRecords /\ NothingForgotten
-----------------------------------------------------------------------------
PacketType == [at : Nat, head : Heads]

\* What packets' heads say of the lengths that were posted.
LEMMA LengthsOfPackets ==
    ASSUME NEW q \in Seq(PacketType), NEW f,
           f = [k \in 1..Len(q) |-> q[k].head - HeaderLength]
    PROVE  f \in Seq(Int) /\ Len(f) = Len(q)
<1>1. \A p \in PacketType : p.head - HeaderLength \in Int
  <2>1. \A p \in PacketType : p.head \in Heads
    BY DEF PacketType
  <2>2. \A h \in Heads : h - HeaderLength \in Int
    BY ReaderAssumption
  <2>. QED BY <2>1, <2>2
<1>2. \A k \in 1..Len(q) : q[k] \in PacketType
  OBVIOUS
<1>3. f \in [1..Len(q) -> Int] /\ Len(q) \in Nat
  BY <1>1, <1>2
<1>. QED BY <1>3

\* One packet more says one length more.
LEMMA OneMorePacket ==
    ASSUME NEW q \in Seq(PacketType), NEW p \in PacketType, NEW f, NEW g,
           f = [k \in 1..Len(q) |-> q[k].head - HeaderLength],
           g = [k \in 1..Len(Append(q, p)) |-> Append(q, p)[k].head - HeaderLength]
    PROVE  g = Append(f, p.head - HeaderLength)
<1>. DEFINE r == Append(q, p)
            a == Append(f, p.head - HeaderLength)
<1>1. /\ r \in Seq(PacketType) /\ Len(r) = Len(q) + 1 /\ Len(q) \in Nat
      /\ r[Len(q) + 1] = p
      /\ \A k \in 1..Len(q) : r[k] = q[k]
  OBVIOUS
<1>2. f \in Seq(Int) /\ Len(f) = Len(q) /\ g \in Seq(Int) /\ Len(g) = Len(r)
  BY <1>1, LengthsOfPackets
<1>3. p.head - HeaderLength \in Int
  <2>1. p.head \in Heads
    BY DEF PacketType
  <2>2. \A h \in Heads : h - HeaderLength \in Int
    BY ReaderAssumption
  <2>. QED BY <2>1, <2>2
<1>4. /\ a \in Seq(Int) /\ Len(a) = Len(q) + 1 /\ a[Len(q) + 1] = p.head - HeaderLength
      /\ \A k \in 1..Len(q) : a[k] = f[k]
  BY <1>2, <1>3
<1>5. ASSUME NEW k \in 1..Len(q) + 1 PROVE g[k] = a[k]
  <2>1. g[k] = r[k].head - HeaderLength
    BY <1>1
  <2>2. CASE k \in 1..Len(q)
    BY <1>1, <1>4, <2>1, <2>2
  <2>3. CASE k = Len(q) + 1
    BY <1>1, <1>4, <2>1, <2>3
  <2>. QED BY <1>1, <2>2, <2>3
<1>. HIDE DEF a, r
<1>6. g = a
  BY <1>1, <1>2, <1>4, <1>5, SameSequence
<1>. QED BY <1>6 DEF a

\* What has been written to the connection through the buffer.
LEMMA ForwardedType ==
    ASSUME ReaderTypeOK, OriginInv
    PROVE  /\ stream \in Seq(PacketType) /\ FromQueue \subseteq 1..Len(stream)
           /\ Picked(stream, FromQueue) \in Seq(PacketType)
           /\ Forwarded \in Seq(Int)
<1>1. stream \in Seq(PacketType) /\ FromQueue \subseteq 1..Len(stream)
  BY DEF FromQueue, ReaderTypeOK, PacketType
<1>2. Picked(stream, FromQueue) \in Seq(PacketType)
  BY <1>1, PickedType
<1>3. Forwarded \in Seq(Int)
  BY <1>2, LengthsOfPackets DEF Forwarded
<1>. QED BY <1>1, <1>2, <1>3

\* A packet written to the connection comes behind those before it.
LEMMA StreamGrows ==
    ASSUME ReaderTypeOK, OriginInv,
           NEW p \in PacketType, NEW from \in {"queue", "sync", "stray"},
           stream' = Append(stream, p), origin' = Append(origin, from), posted' = posted
    PROVE  /\ OriginInv'
           /\ Forwarded' = IF from = "queue" THEN Append(Forwarded, p.head - HeaderLength)
                                             ELSE Forwarded
<1>. DEFINE n == Len(stream)
            queued == Picked(stream, FromQueue)
<1>1. /\ stream \in Seq(PacketType) /\ n \in Nat
      /\ origin \in Seq({"queue", "sync", "stray"}) /\ Len(origin) = n
  BY DEF ReaderTypeOK, OriginInv, PacketType
<1>2. /\ origin' \in Seq({"queue", "sync", "stray"}) /\ Len(origin') = n + 1
      /\ Len(stream') = n + 1 /\ origin'[n + 1] = from
      /\ \A i \in 1..n : origin'[i] = origin[i]
  BY <1>1
<1>3. OriginInv'
  BY <1>2 DEF OriginInv
<1>4. FromQueue' = IF from = "queue" THEN FromQueue \cup {n + 1} ELSE FromQueue
  <2>1. FromQueue' = {i \in 1..n + 1 : origin'[i] = "queue"}
    BY <1>2 DEF FromQueue
  <2>2. \A i : i \in 1..n + 1 <=> i \in 1..n \/ i = n + 1
    BY <1>1
  <2>. QED BY <1>2, <2>1, <2>2 DEF FromQueue
<1>5. FromQueue \subseteq 1..Len(stream) /\ queued \in Seq(PacketType)
  BY ForwardedType
<1>6. /\ Picked(Append(stream, p), FromQueue) = queued
      /\ Picked(Append(stream, p), FromQueue \cup {n + 1}) = Append(queued, p)
  <2>1. stream \in Seq(PacketType) /\ p \in PacketType
    BY <1>1
  <2>2. FromQueue \subseteq 1..Len(stream)
    BY <1>5
  <2>3. /\ Picked(Append(stream, p), FromQueue) = Picked(stream, FromQueue)
        /\ Picked(Append(stream, p), FromQueue \cup {Len(stream) + 1})
              = Append(Picked(stream, FromQueue), p)
    BY ONLY <2>1, <2>2, PickedAppend
  <2>. QED BY <2>3
<1>7. Picked(stream', FromQueue') = IF from = "queue" THEN Append(queued, p) ELSE queued
  BY <1>4, <1>6
<1>8. Forwarded = [k \in 1..Len(queued) |-> queued[k].head - HeaderLength]
  BY DEF Forwarded
<1>9. Forwarded' = [k \in 1..Len(Picked(stream', FromQueue')) |->
                       Picked(stream', FromQueue')[k].head - HeaderLength]
  BY DEF Forwarded
<1>. HIDE DEF queued, n
<1>10. CASE from # "queue"
  BY <1>3, <1>7, <1>8, <1>9, <1>10
<1>11. CASE from = "queue"
  <2>1. Forwarded' = [k \in 1..Len(Append(queued, p)) |->
                         Append(queued, p)[k].head - HeaderLength]
    BY <1>7, <1>9, <1>11
  <2>2. Forwarded' = Append(Forwarded, p.head - HeaderLength)
    BY <1>5, <1>8, <2>1, OneMorePacket
  <2>. QED BY <1>3, <1>11, <2>2
<1>. QED BY <1>10, <1>11
-----------------------------------------------------------------------------
\* The lengths of records.
LEMMA LengthsOfRecords ==
    ASSUME NEW q \in Seq(RecordType), NEW f, f = [k \in 1..Len(q) |-> q[k].length]
    PROVE  f \in Seq(Nat) /\ Len(f) = Len(q)
<1>1. \A r \in RecordType : r.length \in Nat
  BY DEF RecordType
<1>2. \A k \in 1..Len(q) : q[k] \in RecordType
  OBVIOUS
<1>3. f \in [1..Len(q) -> Nat] /\ Len(q) \in Nat
  BY <1>1, <1>2
<1>. QED BY <1>3

\* One record more has one length more.
LEMMA OneMoreRecord ==
    ASSUME NEW q \in Seq(RecordType), NEW r \in RecordType, NEW f, NEW g,
           f = [k \in 1..Len(q) |-> q[k].length],
           g = [k \in 1..Len(Append(q, r)) |-> Append(q, r)[k].length]
    PROVE  g = Append(f, r.length)
<1>. DEFINE s == Append(q, r)
            a == Append(f, r.length)
<1>1. /\ s \in Seq(RecordType) /\ Len(s) = Len(q) + 1 /\ Len(q) \in Nat
      /\ s[Len(q) + 1] = r
      /\ \A k \in 1..Len(q) : s[k] = q[k]
  OBVIOUS
<1>2. f \in Seq(Nat) /\ Len(f) = Len(q) /\ g \in Seq(Nat) /\ Len(g) = Len(s)
  BY <1>1, LengthsOfRecords
<1>3. r.length \in Nat
  BY DEF RecordType
<1>4. /\ a \in Seq(Nat) /\ Len(a) = Len(q) + 1 /\ a[Len(q) + 1] = r.length
      /\ \A k \in 1..Len(q) : a[k] = f[k]
  BY <1>2, <1>3
<1>5. ASSUME NEW k \in 1..Len(q) + 1 PROVE g[k] = a[k]
  <2>1. g[k] = s[k].length
    BY <1>1
  <2>2. CASE k \in 1..Len(q)
    BY <1>1, <1>4, <2>1, <2>2
  <2>3. CASE k = Len(q) + 1
    BY <1>1, <1>4, <2>1, <2>3
  <2>. QED BY <1>1, <2>2, <2>3
<1>. HIDE DEF a, s
<1>6. g = a
  BY <1>1, <1>2, <1>4, <1>5, SameSequence
<1>. QED BY <1>6 DEF a

\* One record before the others has its length before theirs.
LEMMA OneRecordBefore ==
    ASSUME NEW q \in Seq(RecordType), NEW r \in RecordType, NEW f, NEW g,
           g = [k \in 1..Len(q) |-> q[k].length],
           f = [k \in 1..Len(<<r>> \o q) |-> (<<r>> \o q)[k].length]
    PROVE  f = <<r.length>> \o g
<1>. DEFINE s == <<r>> \o q
<1>1. <<r>> \in Seq(RecordType) /\ Len(<<r>>) = 1 /\ <<r>>[1] = r
  OBVIOUS
<1>2. PICK n \in Nat : n = Len(q)
  OBVIOUS
<1>3. /\ s \in Seq(RecordType) /\ Len(s) = 1 + n /\ s[1] = r
      /\ \A k \in 1..n : s[1 + k] = q[k]
  BY <1>1, <1>2, Parts
<1>. HIDE DEF s
<1>4. f = [k \in 1..Len(s) |-> s[k].length]
  BY DEF s
<1>5. f \in Seq(Nat) /\ Len(f) = 1 + n /\ g \in Seq(Nat) /\ Len(g) = n
  BY <1>2, <1>3, <1>4, LengthsOfRecords
<1>6. r.length \in Nat
  BY DEF RecordType
<1>7. <<r.length>> \in Seq(Nat) /\ Len(<<r.length>>) = 1 /\ <<r.length>>[1] = r.length
  BY <1>6
<1>8. f[1] = r.length
  <2>1. 1 \in 1..1 + n
    OBVIOUS
  <2>. QED BY <1>3, <1>4, <2>1
<1>9. ASSUME NEW k \in 1..n PROVE f[1 + k] = g[k]
  <2>1. 1 + k \in 1..1 + n
    OBVIOUS
  <2>. QED BY <1>2, <1>3, <1>4, <2>1
<1>. DEFINE b == <<r.length>>
<1>10. /\ b \in Seq(Nat) /\ f \in Seq(Nat) /\ g \in Seq(Nat)
       /\ Len(f) = Len(b) + Len(g)
       /\ \A k \in 1..Len(b) : f[k] = b[k]
  BY <1>5, <1>7, <1>8
<1>11. \A k \in 1..Len(g) : f[Len(b) + k] = g[k]
  BY <1>5, <1>7, <1>9
<1>. HIDE DEF b
<1>12. f = b \o g
  BY ONLY <1>10, <1>11, Concatenated
<1>. QED BY <1>12 DEF b

\* What is still in the buffer.
LEMMA PendingType ==
    ASSUME BufferTypeOK
    PROVE  /\ memory \in Seq(RecordType) /\ Unread \subseteq 1..Len(memory)
           /\ Picked(memory, Unread) \in Seq(RecordType)
           /\ Pending \in Seq(Nat) /\ Len(Pending) = Len(Picked(memory, Unread))
           /\ Pending = [k \in 1..Len(Picked(memory, Unread)) |->
                            Picked(memory, Unread)[k].length]
<1>1. memory \in Seq(RecordType) /\ Unread \subseteq 1..Len(memory)
  BY DEF BufferTypeOK, RecordType, Unread
<1>2. Picked(memory, Unread) \in Seq(RecordType)
  BY <1>1, PickedType
<1>3. Pending = [k \in 1..Len(Picked(memory, Unread)) |-> Picked(memory, Unread)[k].length]
  BY DEF Pending
<1>4. Pending \in Seq(Nat) /\ Len(Pending) = Len(Picked(memory, Unread))
  BY <1>2, <1>3, LengthsOfRecords
<1>. QED BY <1>1, <1>2, <1>3, <1>4

\* A record put into the buffer is read after all others.
LEMMA PendingGrows ==
    ASSUME BufferTypeOK, NEW op \in {"Send", "Connect", "Close"}, NEW n \in Nat, Put(op, n)
    PROVE  Pending' = IF op = "Send" THEN Append(Pending, n) ELSE Pending
<1>. DEFINE m == Len(memory)
            r == Record(op, dataLength, n)
            left == Picked(memory, Unread)
<1>1. /\ memory \in Seq(RecordType) /\ m \in Nat
      /\ Unread \subseteq 1..Len(memory) /\ left \in Seq(RecordType)
  BY PendingType
<1>2. /\ memory' = Append(memory, r) /\ readOffset' = readOffset
      /\ dataLength \in Nat /\ readOffset \in Nat /\ readOffset <= dataLength
  BY BufferNumbers DEF Put
<1>3. r \in RecordType /\ r.op = op /\ r.at = dataLength /\ r.length = n
  BY <1>2 DEF Record, RecordType
<1>4. /\ Len(memory') = m + 1 /\ memory'[m + 1] = r
      /\ \A i \in 1..m : memory'[i] = memory[i]
  BY <1>1, <1>2, <1>3
<1>5. Unread' = IF op = "Send" THEN Unread \cup {m + 1} ELSE Unread
  <2>1. Unread' = {j \in 1..m + 1 : memory'[j].op = "Send" /\ memory'[j].at >= readOffset}
    BY <1>2, <1>4 DEF Unread
  <2>2. \A i : i \in 1..m + 1 <=> i \in 1..m \/ i = m + 1
    BY <1>1
  <2>3. dataLength >= readOffset
    BY <1>2
  <2>. QED BY <1>3, <1>4, <2>1, <2>2, <2>3 DEF Unread
<1>6. /\ Picked(Append(memory, r), Unread) = left
      /\ Picked(Append(memory, r), Unread \cup {m + 1}) = Append(left, r)
  BY <1>1, <1>3, PickedAppend
<1>7. Picked(memory', Unread') = IF op = "Send" THEN Append(left, r) ELSE left
  BY <1>2, <1>5, <1>6
<1>8. Pending = [k \in 1..Len(left) |-> left[k].length]
  BY DEF Pending
<1>9. Pending' = [k \in 1..Len(Picked(memory', Unread')) |->
                     Picked(memory', Unread')[k].length]
  BY DEF Pending
<1>. HIDE DEF left, m, r
<1>10. CASE op # "Send"
  BY <1>7, <1>8, <1>9, <1>10
<1>11. CASE op = "Send"
  <2>1. Pending' = [k \in 1..Len(Append(left, r)) |-> Append(left, r)[k].length]
    BY <1>7, <1>9, <1>11
  <2>2. Pending' = Append(Pending, r.length)
    BY <1>1, <1>3, <1>8, <2>1, OneMoreRecord
  <2>. QED BY <1>3, <1>11, <2>2
<1>. QED BY <1>10, <1>11
-----------------------------------------------------------------------------
\* No lengths are left when nothing is picked.
LEMMA NoneLeft ==
    ASSUME NEW q, NEW f, f = [k \in 1..Len(Picked(q, {})) |-> Picked(q, {})[k].length]
    PROVE  f = <<>>
<1>1. Picked(q, {}) = <<>>
  BY PickedNone
<1>. QED BY <1>1

\* When the buffer has been read to its end, no packet is left in it.
LEMMA PendingNone ==
    ASSUME BufferInv, Readable = 0
    PROVE  Pending = <<>>
<1>1. readOffset = dataLength /\ dataLength \in Nat
  BY BufferNumbers DEF BufferInv, Readable
<1>2. ASSUME NEW j \in 1..Len(memory) PROVE ~(memory[j].at >= readOffset)
  BY <1>1, RecordEnds
<1>3. Unread = {}
  BY <1>2 DEF Unread
<1>4. Pending = [k \in 1..Len(Picked(memory, {})) |-> Picked(memory, {})[k].length]
  BY <1>3 DEF Pending
<1>. QED BY <1>4, NoneLeft

\* Nor after Reset.
LEMMA PendingReset ==
    ASSUME memory' = <<>>
    PROVE  Pending' = <<>>
<1>1. Unread' = {}
  BY DEF Unread
<1>2. Pending' = [k \in 1..Len(Picked(memory', {})) |-> Picked(memory', {})[k].length]
  BY <1>1 DEF Pending
<1>. QED BY <1>2, NoneLeft

\* A record taken was the first one unread.
LEMMA PendingTaken ==
    ASSUME BufferInv, Ordered, NEW op, NEW j \in 1..Len(memory), Taken(op, j),
           readOffset' = RecordEnd(memory[j])
    PROVE  IF op = "Send" THEN /\ Pending' \in Seq(Nat)
                               /\ Pending = <<memory[j].length>> \o Pending'
                          ELSE Pending' = Pending
<1>. DEFINE left == Picked(memory, Unread)
            rest == Picked(memory, Unread \ {j})
<1>1. /\ memory[j].at = readOffset /\ memory[j].op = op /\ memory' = memory
      /\ readOffset \in Nat /\ readOffset' \in Nat /\ readOffset < readOffset'
  BY RecordEnds, BufferNumbers DEF Taken, RecordAt, BufferInv
<1>2. ASSUME NEW i \in 1..Len(memory)
      PROVE  /\ memory[i].at >= readOffset <=> i >= j
             /\ memory[i].at >= readOffset' <=> i >= j /\ i # j
  <2>1. /\ memory[i].at \in Nat /\ RecordEnd(memory[i]) \in Nat
        /\ memory[i].at < RecordEnd(memory[i])
    BY RecordEnds
  <2>2. i < j => RecordEnd(memory[i]) <= readOffset
    BY <1>1 DEF Ordered
  <2>3. j < i => readOffset' <= memory[i].at
    BY DEF Ordered
  <2>4. i < j \/ i = j \/ j < i
    BY BufferNumbers DEF BufferInv
  <2>5. CASE i < j
    BY <1>1, <2>1, <2>2, <2>5
  <2>6. CASE i = j
    BY <1>1, <2>6
  <2>7. CASE j < i
    BY <1>1, <2>1, <2>3, <2>7
  <2>. QED BY <2>4, <2>5, <2>6, <2>7
<1>3. Unread' = Unread \ {j}
  BY <1>1, <1>2 DEF Unread
<1>4. Pending' = [k \in 1..Len(rest) |-> rest[k].length]
  BY <1>1, <1>3 DEF Pending
<1>5. CASE op # "Send"
  <2>1. Unread' = Unread
    BY <1>1, <1>3, <1>5 DEF Unread
  <2>. QED BY <1>1, <1>5, <2>1 DEF Pending
<1>6. CASE op = "Send"
  <2>1. /\ memory \in Seq(RecordType) /\ Unread \subseteq 1..Len(memory)
        /\ Pending = [k \in 1..Len(left) |-> left[k].length]
    BY PendingType DEF BufferInv
  <2>2. j \in Unread
    BY <1>1, <1>2, <1>6 DEF Unread
  <2>3. \A i \in Unread : j <= i
    BY <1>2, BufferNumbers DEF Unread, BufferInv
  <2>4. left = <<memory[j]>> \o rest
    <3>1. Unread \ {j} \subseteq j + 1..Len(memory)
      BY <2>1, <2>3, BufferNumbers DEF BufferInv
    <3>2. (Unread \ {j}) \cup {j} = Unread
      BY <2>2
    <3>3. Picked(memory, (Unread \ {j}) \cup {j}) = <<memory[j]>> \o Picked(memory, Unread \ {j})
      BY <2>1, <3>1, PickedFirst
    <3>. QED BY <3>2, <3>3
  <2>5. rest \in Seq(RecordType)
    <3>1. Unread \ {j} \subseteq 1..Len(memory)
      BY <2>1
    <3>. QED BY <2>1, <3>1, PickedType
  <2>6. memory[j] \in RecordType
    BY RecordsType DEF BufferInv
  <2>. HIDE DEF left, rest
  <2>7. Pending' \in Seq(Nat)
    BY <1>4, <2>5, LengthsOfRecords
  <2>8. Pending = [k \in 1..Len(<<memory[j]>> \o rest) |-> (<<memory[j]>> \o rest)[k].length]
    BY <2>1, <2>4
  <2>9. Pending = <<memory[j].length>> \o Pending'
    BY <1>4, <2>5, <2>6, <2>8, OneRecordBefore
  <2>. QED BY <1>6, <2>7, <2>9
<1>. QED BY <1>5, <1>6

\* It makes no difference to the packets if it was none.
LEMMA PendingKept ==
    ASSUME BufferInv, Ordered, NEW j \in 1..Len(memory), Taken("Close", j) \/ Taken("Connect", j),
           readOffset' = RecordEnd(memory[j])
    PROVE  Pending' = Pending
<1>1. PICK op : Taken(op, j) /\ op # "Send"
  <2>1. "Close" # "Send" /\ "Connect" # "Send"
    OBVIOUS
  <2>. QED BY <2>1, Zenon
<1>. QED BY <1>1, PendingTaken
-----------------------------------------------------------------------------
\* When a packet is posted, it is known by its length that it is oversize.
LEMMA PostKeeps ==
    ASSUME BufferInv, OriginInv, ShortRecords, NEW n \in Lengths, Post(n)
    PROVE  /\ OriginInv' /\ ShortRecords'
           /\ OversizePosted => OversizePosted'
<1>1. /\ posted \in Seq(Nat) /\ n \in Nat /\ posted' = Append(posted, n)
      /\ UNCHANGED <<stream, origin>>
  BY BufferAssumption DEF Post, OriginInv, readerVars
<1>2. /\ posted' \in Seq(Nat) /\ Len(posted') = Len(posted) + 1 /\ posted'[Len(posted) + 1] = n
      /\ Len(posted) \in Nat
      /\ \A k \in 1..Len(posted) : posted'[k] = posted[k]
  BY <1>1
<1>3. OriginInv'
  BY <1>1, <1>2 DEF OriginInv
<1>4. OversizePosted => OversizePosted'
  <2>1. \A k \in 1..Len(posted) : k \in 1..Len(posted) + 1
    BY <1>2
  <2>. QED BY <1>2, <2>1 DEF OversizePosted
<1>5. n >= TagRange => OversizePosted'
  <2>1. Len(posted) + 1 \in 1..Len(posted')
    BY <1>2
  <2>. QED BY <1>2, <2>1 DEF OversizePosted
<1>6. n < TagRange \/ n >= TagRange
  BY <1>1, BufferAssumption
<1>7. ASSUME n < TagRange, \A j \in 1..Len(memory) : memory[j].length < TagRange
      PROVE  \A j \in 1..Len(memory') : memory'[j].length < TagRange
  <2>. DEFINE r == Record("Send", dataLength, n)
  <2>1. memory \in Seq(RecordType) /\ Len(memory) \in Nat /\ dataLength \in Nat
    BY BufferNumbers, PendingType DEF BufferInv
  <2>2. r \in RecordType /\ r.length = n /\ memory' = Append(memory, r)
    BY <1>1, <2>1 DEF Record, RecordType, Post, PutSend, Put
  <2>3. /\ Len(memory') = Len(memory) + 1 /\ memory'[Len(memory) + 1] = r
        /\ \A i \in 1..Len(memory) : memory'[i] = memory[i]
    BY <2>1, <2>2
  <2>. QED BY <1>7, <2>1, <2>2, <2>3
<1>. QED BY <1>3, <1>4, <1>5, <1>6, <1>7 DEF ShortRecords

\* No other step makes a record oversize.
LEMMA ShortStep ==
    ASSUME BufferInv, ShortRecords, [BufferNext]_bufferVars, UNCHANGED posted,
           \A n \in Nat : memory' # Append(memory, Record("Send", dataLength, n))
    PROVE  ShortRecords'
<1>1. SUFFICES ASSUME ~OversizePosted PROVE ShortRecords'
  BY DEF ShortRecords, OversizePosted
<1>2. \A j \in 1..Len(memory) : memory[j].length < TagRange
  BY <1>1 DEF ShortRecords
<1>3. CASE memory' = memory
  BY <1>2, <1>3 DEF ShortRecords
<1>4. CASE memory' = <<>>
  BY <1>4 DEF ShortRecords
<1>5. ASSUME NEW op \in {"Connect", "Close"}, NEW n \in Nat,
             memory' = Append(memory, Record(op, dataLength, n))
      PROVE  ShortRecords'
  <2>. DEFINE r == Record(op, dataLength, n)
  <2>1. memory \in Seq(RecordType) /\ Len(memory) \in Nat /\ dataLength \in Nat
    BY BufferNumbers, PendingType DEF BufferInv
  <2>2. r \in RecordType /\ r.length = n /\ r.op = op
    BY <2>1 DEF Record, RecordType
  <2>3. /\ Len(memory') = Len(memory) + 1 /\ memory'[Len(memory) + 1] = r
        /\ \A i \in 1..Len(memory) : memory'[i] = memory[i]
    BY <1>5, <2>1, <2>2
  <2>4. n < TagRange
    <3>1. Packed'
      BY BufferStep DEF BufferInv
    <3>2. r.op = "Connect" => r.length = ContextSize
      <4>1. Len(memory) + 1 \in 1..Len(memory')
        BY <2>1, <2>3
      <4>. QED BY <2>3, <3>1, <4>1 DEF Packed
    <3>3. r.op = "Close" => r.length = 0
      <4>1. Len(memory) + 1 \in 1..Len(memory')
        BY <2>1, <2>3
      <4>. QED BY <2>3, <3>1, <4>1 DEF Packed
    <3>. QED BY <2>2, <3>2, <3>3, BufferAssumption
  <2>. QED BY <1>2, <2>1, <2>2, <2>3, <2>4 DEF ShortRecords
<1>. QED BY <1>3, <1>4, <1>5, MemoryStep
-----------------------------------------------------------------------------
\* NothingForgotten, when no oversize packet was posted.
Kept ==
    IF linked /\ open
    THEN posted = Forwarded \o Pending
    ELSE \E k \in 0..Len(posted) : Forwarded = SubSeq(posted, 1, k)

\* The sequences it is about.
LEMMA KeptTypes ==
    ASSUME ReaderTypeOK, OriginInv, BufferInv
    PROVE  posted \in Seq(Int) /\ Forwarded \in Seq(Int) /\ Pending \in Seq(Int)
<1>1. \A s \in Seq(Nat) : s \in Seq(Int)
  <2>. SUFFICES ASSUME NEW s \in Seq(Nat) PROVE s \in Seq(Int)
    OBVIOUS
  <2>1. s \in [1..Len(s) -> Int] /\ Len(s) \in Nat
    OBVIOUS
  <2>. QED BY <2>1
<1>. QED BY <1>1, ForwardedType, PendingType DEF OriginInv, BufferInv

\* What has been written begins what was posted, as long as there is a
\* connection too.
LEMMA KeptBegins ==
    ASSUME ReaderTypeOK, OriginInv, BufferInv, Kept
    PROVE  \E k \in 0..Len(posted) : Forwarded = SubSeq(posted, 1, k)
<1>1. CASE ~(linked /\ open)
  BY <1>1 DEF Kept
<1>2. CASE linked /\ open
  <2>1. posted \in Seq(Int) /\ Forwarded \in Seq(Int) /\ Pending \in Seq(Int)
    BY KeptTypes
  <2>2. posted = Forwarded \o Pending
    BY <1>2 DEF Kept
  <2>3. /\ Len(posted) = Len(Forwarded) + Len(Pending)
        /\ \A k \in 1..Len(Forwarded) : posted[k] = Forwarded[k]
    BY <2>1, <2>2, Parts
  <2>4. Len(Forwarded) <= Len(posted)
    BY <2>1, <2>3
  <2>. QED BY <2>1, <2>3, <2>4, Beginning
<1>. QED BY <1>1, <1>2

\* A step that leaves the packets alone.
LEMMA KeptFrame ==
    ASSUME ReaderTypeOK, OriginInv, BufferInv, Kept,
           posted' = posted, Forwarded' = Forwarded, Pending' = Pending,
           linked' /\ open' => linked /\ open
    PROVE  Kept'
<1>1. CASE linked' /\ open'
  BY <1>1 DEF Kept
<1>2. CASE ~(linked' /\ open')
  BY <1>2, KeptBegins DEF Kept
<1>. QED BY <1>1, <1>2

\* Without a connection nothing is written any more.
LEMMA KeptWithout ==
    ASSUME ReaderTypeOK, OriginInv, BufferInv, Kept,
           posted' = posted, Forwarded' = Forwarded, ~(linked' /\ open')
    PROVE  Kept'
BY KeptBegins DEF Kept

\* SendPacketToUser, SendPacketToServer.
LEMMA KeptPost ==
    ASSUME ReaderTypeOK, OriginInv, BufferInv, Kept, NEW n \in Lengths, Post(n)
    PROVE  Kept'
<1>1. /\ n \in Nat /\ n \in Int /\ posted' = Append(posted, n)
      /\ UNCHANGED <<stream, origin, open, linked>>
  BY BufferAssumption DEF Post, readerVars
<1>2. Forwarded' = Forwarded
  BY <1>1 DEF Forwarded, FromQueue
<1>3. Pending' = Append(Pending, n)
  BY <1>1, PendingGrows DEF Post, PutSend, BufferInv
<1>4. posted \in Seq(Int) /\ Forwarded \in Seq(Int) /\ Pending \in Seq(Int)
  BY KeptTypes
<1>5. CASE linked /\ open
  <2>1. Forwarded \o Append(Pending, n) = Append(Forwarded \o Pending, n)
    BY ONLY <1>1, <1>4
  <2>. QED BY <1>1, <1>2, <1>3, <1>5, <2>1 DEF Kept
<1>6. CASE ~(linked /\ open)
  <2>1. Len(Forwarded) <= Len(posted) /\ \A k \in 1..Len(Forwarded) : Forwarded[k] = posted[k]
    BY <1>4, KeptBegins, Beginning
  <2>2. /\ posted' \in Seq(Int) /\ Len(posted') = Len(posted) + 1 /\ Len(posted) \in Nat
        /\ \A k \in 1..Len(posted) : posted'[k] = posted[k]
    BY <1>1, <1>4
  <2>3. Len(Forwarded) <= Len(posted') /\ \A k \in 1..Len(Forwarded) : Forwarded[k] = posted'[k]
    BY <1>4, <2>1, <2>2
  <2>4. \E k \in 0..Len(posted') : Forwarded = SubSeq(posted', 1, k)
    BY <1>4, <2>2, <2>3, Beginning
  <2>. QED BY <1>1, <1>2, <1>6, <2>4 DEF Kept
<1>. QED BY <1>5, <1>6

\* What Emit does to what has been written through the buffer.
LEMMA EmitEffect ==
    ASSUME ReaderTypeOK, OriginInv, NEW n \in Lengths \cup 0..TagRange - 1,
           NEW from \in {"queue", "sync", "stray"}, Emit(n, from), UNCHANGED posted
    PROVE  /\ OriginInv' /\ open' = open
           /\ \/ /\ linked /\ open
                 /\ Forwarded' = IF from = "queue" THEN Append(Forwarded, n) ELSE Forwarded
              \/ ~(linked /\ open) /\ Forwarded' = Forwarded
<1>1. CASE linked /\ PeerWrites(HeaderLength + n) /\ origin' = Append(origin, from)
  <2>. DEFINE p == Packet(written, HeaderLength + n)
  <2>1. HeaderLength + n \in Heads /\ written \in Nat
    BY HeadsCover DEF ReaderTypeOK
  <2>2. p \in PacketType /\ p.head = HeaderLength + n
    BY <2>1 DEF Packet, PacketType
  <2>3. stream' = Append(stream, p) /\ open' = open /\ open
    BY <1>1 DEF PeerWrites
  <2>4. (HeaderLength + n) - HeaderLength = n
    <3>1. n \in Nat
      BY BufferAssumption
    <3>. QED BY <3>1, ReaderAssumption
  <2>5. /\ OriginInv'
        /\ Forwarded' = IF from = "queue" THEN Append(Forwarded, p.head - HeaderLength)
                                          ELSE Forwarded
    BY <1>1, <2>2, <2>3, StreamGrows
  <2>. QED BY <1>1, <2>2, <2>3, <2>4, <2>5
<1>2. CASE ~(linked /\ open) /\ UNCHANGED <<readerVars, origin>>
  <2>1. UNCHANGED <<stream, origin, open>>
    BY <1>2 DEF readerVars
  <2>. QED BY <1>2, <2>1 DEF OriginInv, Forwarded, FromQueue
<1>. QED BY <1>1, <1>2 DEF Emit
-----------------------------------------------------------------------------
\* A record taken in step is skipped whole.
LEMMA TakenWhole ==
    ASSUME BufferInv, \A i \in 1..Len(memory) : memory[i].length < TagRange,
           NEW j \in 1..Len(memory), NEW there \in BOOLEAN,
           TakeSend(j, there) \/ TakeClose(j, there) \/ TakeConnect(j)
    PROVE  readOffset' = RecordEnd(memory[j])
<1>1. memory[j].length \in Nat
  BY RecordsType DEF BufferInv
<1>2. CASE TakeSend(j, there)
  <2>1. Tag(memory[j].length) = memory[j].length
    BY <1>1, TagOfShort
  <2>. QED BY <1>2, <2>1, SkipsRecord DEF TakeSend
<1>3. CASE TakeClose(j, there)
  <2>1. memory[j].length = 0 /\ Taken("Close", j) /\ Skip(ActionSize)
    BY <1>3 DEF TakeClose, Taken, BufferInv, Packed
  <2>2. Skip(ActionSize + memory[j].length)
    BY <2>1, BufferAssumption
  <2>. QED BY <2>1, <2>2, SkipsRecord
<1>4. CASE TakeConnect(j)
  <2>1. memory[j].length = ContextSize /\ Taken("Connect", j) /\ Skip(ActionSize + ContextSize)
    BY <1>4 DEF TakeConnect, Taken, BufferInv, Packed
  <2>. QED BY <2>1, SkipsRecord
<1>. QED BY <1>2, <1>3, <1>4

\* processConnEvent takes a packet: what was the first one pending is now the
\* last one forwarded, if there is a connection.
LEMMA KeptForward ==
    ASSUME ReaderTypeOK, OriginInv, BufferInv, Ordered, Kept, linked \in BOOLEAN,
           \A i \in 1..Len(memory) : memory[i].length < TagRange,
           NEW j \in 1..Len(memory), Forward(j)
    PROVE  Kept'
<1>. DEFINE n == memory[j].length
<1>1. /\ TakeSend(j, linked) /\ Emit(Tag(n), "queue") /\ linked' = linked /\ posted' = posted
  BY DEF Forward
<1>2. n \in Nat /\ n < TagRange /\ Tag(n) = n
  BY RecordsType, TagOfShort DEF BufferInv
<1>3. n \in Lengths \cup 0..TagRange - 1 /\ Emit(n, "queue")
  BY <1>1, <1>2, BufferAssumption
<1>4. Pending' \in Seq(Nat) /\ Pending = <<n>> \o Pending'
  BY <1>1, TakenWhole, PendingTaken DEF TakeSend
<1>5. /\ open' = open
      /\ \/ linked /\ open /\ Forwarded' = Append(Forwarded, n)
         \/ ~(linked /\ open) /\ Forwarded' = Forwarded
  BY <1>1, <1>3, EmitEffect
<1>6. CASE ~(linked /\ open)
  BY <1>1, <1>5, <1>6, KeptWithout
<1>7. CASE linked /\ open
  <2>1. posted = Forwarded \o (<<n>> \o Pending') /\ Forwarded' = Append(Forwarded, n)
    BY <1>4, <1>5, <1>7 DEF Kept
  <2>2. Forwarded \in Seq(Int) /\ n \in Int /\ Pending' \in Seq(Int)
    <3>1. \A s \in Seq(Nat) : s \in Seq(Int)
      <4>. SUFFICES ASSUME NEW s \in Seq(Nat) PROVE s \in Seq(Int)
        OBVIOUS
      <4>1. s \in [1..Len(s) -> Int] /\ Len(s) \in Nat
        OBVIOUS
      <4>. QED BY <4>1
    <3>2. Forwarded \in Seq(Int)
      BY KeptTypes
    <3>3. n \in Int
      BY <1>2
    <3>. QED BY <1>4, <3>1, <3>2, <3>3
  <2>. HIDE DEF n
  <2>3. Forwarded \o (<<n>> \o Pending') = Append(Forwarded, n) \o Pending'
    BY ONLY <2>2, Shifted
  <2>4. posted' = Forwarded' \o Pending'
    BY <1>1, <2>1, <2>3
  <2>. QED BY <1>1, <1>5, <1>7, <2>4 DEF Kept
<1>. QED BY <1>6, <1>7

\* It takes something else.
LEMMA KeptOther ==
    ASSUME ReaderTypeOK, OriginInv, BufferInv, Ordered, Kept, linked \in BOOLEAN,
           \A i \in 1..Len(memory) : memory[i].length < TagRange,
           NEW j \in 1..Len(memory), TakeOther(j)
    PROVE  Kept'
<1>1. /\ \/ \E there \in BOOLEAN : TakeClose(j, there)
         \/ TakeConnect(j)
      /\ linked' = linked \/ linked' = FALSE
      /\ UNCHANGED <<readerVars, posted, origin>>
  BY DEF TakeOther
<1>2. Taken("Close", j) \/ Taken("Connect", j)
  BY <1>1 DEF TakeClose, TakeConnect
<1>3. readOffset' = RecordEnd(memory[j])
  <2>1. ASSUME NEW there \in BOOLEAN, TakeClose(j, there) PROVE readOffset' = RecordEnd(memory[j])
    BY <2>1, TakenWhole
  <2>2. ASSUME TakeConnect(j) PROVE readOffset' = RecordEnd(memory[j])
    BY <2>2, TakenWhole
  <2>. QED BY <1>1, <2>1, <2>2
<1>4. Pending' = Pending
  BY <1>2, <1>3, PendingKept
<1>5. Forwarded' = Forwarded /\ open' = open
  BY <1>1 DEF readerVars, Forwarded, FromQueue
<1>. QED BY <1>1, <1>4, <1>5, KeptFrame

\* The steps of the reader leave the stream as it is.
LEMMA ReaderLeavesStream ==
    ASSUME Arrive \/ ReceiverReads \/ ReceiverCloses
    PROVE  stream' = stream /\ (open' = open \/ open' = FALSE)
BY DEF Arrive, ReceiverReads, ReceiverCloses, ReadEvent, WorkerReads, ReadHead, TakeHead,
       RejectHead, BodyIsHere, WaitForBody, ReadBody, NextHead, Disconnect
-----------------------------------------------------------------------------
\* The reader in step meets no stray action, and drops nothing.
LEMMA NothingStray ==
    ASSUME BufferInv, \A i \in 1..Len(memory) : memory[i].length < TagRange
    PROVE  ~DropRest /\ \A n \in 0..TagRange - 1 : ~TakeStray(n)
<1>1. /\ dataLength \in Nat /\ readOffset \in Nat /\ readOffset <= dataLength
      /\ ActionSize \in Nat \ {0}
  BY BufferNumbers DEF BufferInv
<1>2. readOffset = dataLength \/ RecordAt(readOffset) # {}
  <2>1. \A i \in 1..Len(memory) : ~(memory[i].length >= TagRange)
    BY RecordsType, BufferAssumption DEF BufferInv
  <2>. QED BY <2>1 DEF BufferInv, InStep, Misled
<1>3. readOffset = dataLength => ~(Readable > 0) /\ ~(Readable >= ActionSize)
  BY <1>1 DEF Readable
<1>. QED BY <1>2, <1>3 DEF DropRest, TakeStray

\* Without an oversize packet, what is posted is kept by every step.
LEMMA KeptStep ==
    ASSUME PathInv, ReaderTypeOK, OriginInv, Ordered, Kept,
           \A i \in 1..Len(memory) : memory[i].length < TagRange,
           [PathNext]_pathVars
    PROVE  Kept'
<1>1. BufferInv /\ BufferTypeOK /\ linked \in BOOLEAN
  BY DEF PathInv, BufferInv
<1>2. ASSUME NEW n \in Lengths, Post(n) PROVE Kept'
  BY <1>1, <1>2, KeptPost
<1>3. ASSUME NEW n \in Lengths, SyncSend(n) PROVE Kept'
  <2>1. Emit(n, "sync") /\ UNCHANGED <<bufferVars, linked, posted>>
    BY <1>3 DEF SyncSend
  <2>2. Forwarded' = Forwarded /\ open' = open
    BY <2>1, EmitEffect
  <2>3. Pending' = Pending
    BY <2>1 DEF bufferVars, Pending, Unread
  <2>. QED BY <1>1, <2>1, <2>2, <2>3, KeptFrame
<1>4. CASE PostOther
  <2>1. UNCHANGED <<readerVars, linked, posted, origin>>
    BY <1>4 DEF PostOther
  <2>2. Forwarded' = Forwarded /\ open' = open
    BY <2>1 DEF readerVars, Forwarded, FromQueue
  <2>3. Put("Close", 0) \/ Put("Connect", ContextSize)
    BY <1>4 DEF PostOther, PutClose, PutConnect
  <2>4. Pending' = Pending
    BY <1>1, <2>3, BufferAssumption, PendingGrows
  <2>. QED BY <1>1, <2>1, <2>2, <2>4, KeptFrame
<1>5. CASE PassStep
  <2>1. ASSUME NEW j \in 1..Len(memory), Forward(j) PROVE Kept'
    BY <1>1, <2>1, KeptForward
  <2>2. ASSUME NEW j \in 1..Len(memory), TakeOther(j) PROVE Kept'
    BY <1>1, <2>2, KeptOther
  <2>3. ASSUME NEW n \in 0..TagRange - 1, Misread(n) PROVE FALSE
    BY <1>1, <2>3, NothingStray DEF Misread
  <2>4. ASSUME BeginPass \/ DropRest \/ CallbackEnds \/ EndPass,
               UNCHANGED <<readerVars, linked, posted, origin>>
        PROVE  Kept'
    <3>1. Forwarded' = Forwarded /\ open' = open
      BY <2>4 DEF readerVars, Forwarded, FromQueue
    <3>2. Pending' = Pending
      <4>1. CASE BeginPass \/ CallbackEnds
        BY <4>1 DEF BeginPass, CallbackEnds, Pending, Unread
      <4>2. CASE DropRest
        BY <1>1, <4>2, NothingStray
      <4>3. CASE EndPass
        BY <1>1, <4>3, PendingNone, PendingReset DEF EndPass, Emptied
      <4>. QED BY <2>4, <4>1, <4>2, <4>3
    <3>. QED BY <1>1, <2>4, <3>1, <3>2, KeptFrame
  <2>. QED BY <1>5, <2>1, <2>2, <2>3, <2>4 DEF PassStep
<1>6. CASE SenderCloses
  <2>1. linked' = FALSE /\ UNCHANGED <<readerVars, posted, origin>>
    BY <1>6 DEF SenderCloses
  <2>2. Forwarded' = Forwarded
    BY <2>1 DEF readerVars, Forwarded, FromQueue
  <2>. QED BY <1>1, <2>1, <2>2, KeptWithout
<1>7. CASE Arrive \/ ReceiverReads \/ ReceiverCloses
  <2>1. UNCHANGED <<bufferVars, linked, posted, origin>>
    BY <1>7 DEF Arrive, ReceiverReads, ReceiverCloses
  <2>2. stream' = stream /\ (open' = open \/ open' = FALSE)
    BY <1>7, ReaderLeavesStream
  <2>3. Forwarded' = Forwarded
    BY <2>1, <2>2 DEF Forwarded, FromQueue
  <2>4. Pending' = Pending
    BY <2>1 DEF bufferVars, Pending, Unread
  <2>. QED BY <1>1, <2>1, <2>2, <2>3, <2>4, KeptFrame
<1>8. CASE UNCHANGED pathVars
  <2>1. /\ UNCHANGED <<linked, posted, open>>
        /\ Forwarded' = Forwarded /\ Pending' = Pending
    BY <1>8 DEF pathVars, readerVars, bufferVars, Forwarded, FromQueue, Pending, Unread
  <2>. QED BY <1>1, <2>1, KeptFrame
<1>. QED BY <1>2, <1>3, <1>4, <1>5, <1>6, <1>7, <1>8 DEF PathNext

\* Only SendPacketToUser and SendPacketToServer post packets.
LEMMA PostedStays ==
    ASSUME [PathNext]_pathVars
    PROVE  (\E n \in Lengths : Post(n)) \/ posted' = posted
BY DEF PathNext, pathVars, SyncSend, PostOther, PassStep, Forward, TakeOther, Misread,
       SenderCloses, Arrive, ReceiverReads, ReceiverCloses

\* A packet in the stream comes with its origin.
LEMMA OriginStep ==
    ASSUME PathInv, ReaderTypeOK, OriginInv, ShortRecords, [PathNext]_pathVars
    PROVE  OriginInv'
<1>1. BufferInv /\ linked \in BOOLEAN
  BY DEF PathInv
<1>2. ASSUME UNCHANGED <<posted, origin>>, stream' = stream PROVE OriginInv'
  BY <1>2 DEF OriginInv
<1>3. ASSUME NEW n \in Lengths, Post(n) PROVE OriginInv'
  BY <1>1, <1>3, PostKeeps
<1>4. ASSUME NEW n \in Lengths, SyncSend(n) PROVE OriginInv'
  BY <1>4, EmitEffect DEF SyncSend
<1>5. CASE PassStep
  <2>1. ASSUME NEW j \in 1..Len(memory), Forward(j) PROVE OriginInv'
    <3>1. Tag(memory[j].length) \in 0..TagRange - 1
      BY <1>1, RecordsType, TagInRange DEF BufferInv
    <3>2. Emit(Tag(memory[j].length), "queue") /\ posted' = posted
      BY <2>1 DEF Forward
    <3>. QED BY <3>1, <3>2, EmitEffect
  <2>2. ASSUME NEW n \in 0..TagRange - 1, Misread(n) PROVE OriginInv'
    <3>1. CASE Emit(n, "stray")
      BY <2>2, <3>1, EmitEffect DEF Misread
    <3>2. CASE UNCHANGED <<readerVars, origin>>
      BY <1>2, <2>2, <3>2 DEF Misread, readerVars
    <3>. QED BY <2>2, <3>1, <3>2 DEF Misread
  <2>3. ASSUME NEW j \in 1..Len(memory), TakeOther(j) PROVE OriginInv'
    BY <1>2, <2>3 DEF TakeOther, readerVars
  <2>4. ASSUME UNCHANGED <<readerVars, linked, posted, origin>> PROVE OriginInv'
    BY <1>2, <2>4 DEF readerVars
  <2>. QED BY <1>5, <2>1, <2>2, <2>3, <2>4 DEF PassStep
<1>6. CASE PostOther \/ SenderCloses
  BY <1>2, <1>6 DEF PostOther, SenderCloses, readerVars
<1>7. CASE Arrive \/ ReceiverReads \/ ReceiverCloses
  BY <1>2, <1>7, ReaderLeavesStream DEF Arrive, ReceiverReads, ReceiverCloses
<1>8. CASE UNCHANGED pathVars
  BY <1>2, <1>8 DEF pathVars, readerVars
<1>. QED BY <1>3, <1>4, <1>5, <1>6, <1>7, <1>8 DEF PathNext

\* Only SendPacketToUser and SendPacketToServer put packets into the buffer.
LEMMA SendIsPost ==
    ASSUME PathInv, [PathNext]_pathVars, ~\E n \in Lengths : Post(n)
    PROVE  \A n \in Nat : memory' # Append(memory, Record("Send", dataLength, n))
<1>. SUFFICES ASSUME NEW n \in Nat, memory' = Append(memory, Record("Send", dataLength, n))
              PROVE  FALSE
  OBVIOUS
<1>. DEFINE r == Record("Send", dataLength, n)
<1>1. /\ memory \in Seq(RecordType) /\ Len(memory) \in Nat /\ dataLength \in Nat
      /\ ContextSize \in Nat
  BY BufferNumbers, PendingType DEF PathInv, BufferInv
<1>2. r \in RecordType /\ r.op = "Send"
  BY <1>1 DEF Record, RecordType
<1>3. Len(memory') = Len(memory) + 1 /\ memory'[Len(memory) + 1] = r
  BY <1>1, <1>2
<1>4. memory' # memory /\ memory' # <<>>
  BY <1>1, <1>3
<1>5. CASE PostOther
  <2>1. PICK op \in {"Close", "Connect"}, k \in Nat :
            memory' = Append(memory, Record(op, dataLength, k))
    <3>1. CASE PutClose
      BY <3>1 DEF PutClose, Put
    <3>2. CASE PutConnect
      BY <1>1, <3>2 DEF PutConnect, Put
    <3>. QED BY <1>5, <3>1, <3>2 DEF PostOther
  <2>2. Record(op, dataLength, k) \in RecordType /\ Record(op, dataLength, k).op = op
    BY <1>1 DEF Record, RecordType
  <2>3. memory'[Len(memory) + 1] = Record(op, dataLength, k)
    BY <1>1, <2>1, <2>2
  <2>. QED BY <1>2, <1>3, <2>2, <2>3
<1>6. CASE PassStep
  BY <1>4, <1>6
  DEF PassStep, Forward, TakeOther, Misread, TakeSend, TakeClose, TakeConnect, TakeStray, Taken,
      BeginPass, DropRest, CallbackEnds, EndPass, Emptied
<1>7. CASE UNCHANGED bufferVars
  BY <1>4, <1>7 DEF bufferVars
<1>. QED BY <1>5, <1>6, <1>7 DEF PathNext, SyncSend, SenderCloses, Arrive, ReceiverReads,
                                 ReceiverCloses, pathVars

\* Records are short as long as no oversize packet was posted.
LEMMA ShortRecordsStep ==
    ASSUME PathInv, OriginInv, ShortRecords, [PathNext]_pathVars
    PROVE  ShortRecords'
<1>1. BufferInv /\ [BufferNext]_bufferVars
  BY BufferSimulation DEF PathInv
<1>2. ASSUME NEW n \in Lengths, Post(n) PROVE ShortRecords'
  BY <1>1, <1>2, PostKeeps
<1>3. CASE ~\E n \in Lengths : Post(n)
  BY <1>1, <1>3, PostedStays, SendIsPost, ShortStep
<1>. QED BY <1>2, <1>3

\* An oversize packet that was posted remains so.
LEMMA OversizeStays ==
    ASSUME PathInv, OriginInv, ShortRecords, [PathNext]_pathVars, OversizePosted
    PROVE  OversizePosted'
<1>1. ASSUME NEW n \in Lengths, Post(n) PROVE OversizePosted'
  BY <1>1, PostKeeps DEF PathInv
<1>2. CASE posted' = posted
  BY <1>2 DEF OversizePosted
<1>. QED BY <1>1, <1>2, PostedStays

\* The invariant is inductive.
LEMMA DeliveryStep ==
    PathInv /\ ReaderTypeOK /\ DeliveryInv /\ [PathNext]_pathVars => DeliveryInv'
<1>. SUFFICES ASSUME PathInv, ReaderTypeOK, DeliveryInv, [PathNext]_pathVars
              PROVE  DeliveryInv'
  OBVIOUS
<1>1. OriginInv /\ Ordered /\ ShortRecords /\ NothingForgotten
  BY DEF DeliveryInv
<1>2. OriginInv'
  BY <1>1, OriginStep
<1>3. Ordered'
  BY <1>1, BufferSimulation, OrderedStep DEF PathInv
<1>4. ShortRecords'
  BY <1>1, ShortRecordsStep
<1>5. ASSUME ~OversizePosted' PROVE Kept'
  <2>1. ~OversizePosted
    BY <1>1, <1>5, OversizeStays
  <2>2. Kept /\ \A i \in 1..Len(memory) : memory[i].length < TagRange
    BY <1>1, <2>1 DEF NothingForgotten, Kept, ShortRecords
  <2>. QED BY <1>1, <2>2, KeptStep
<1>6. NothingForgotten'
  BY <1>5 DEF NothingForgotten, Kept
<1>. QED BY <1>2, <1>3, <1>4, <1>6 DEF DeliveryInv

\* At the start nothing has been posted, and nothing written.
LEMMA DeliveryInitially == PathInit => DeliveryInv
<1>. SUFFICES ASSUME PathInit PROVE DeliveryInv
  OBVIOUS
<1>1. /\ stream = <<>> /\ memory = <<>> /\ posted = <<>> /\ origin = <<>>
      /\ linked /\ open
  BY DEF PathInit, BufferInit, ReaderInit
<1>2. OriginInv /\ Ordered /\ ShortRecords
  BY <1>1 DEF OriginInv, Ordered, ShortRecords
<1>3. Forwarded = <<>>
  <2>1. Picked(stream, {}) = <<>>
    BY PickedNone
  <2>2. FromQueue = {}
    BY <1>1 DEF FromQueue
  <2>. QED BY <2>1, <2>2 DEF Forwarded
<1>4. Pending = <<>>
  <2>1. Unread = {}
    BY <1>1 DEF Unread
  <2>2. Pending = [k \in 1..Len(Picked(memory, {})) |-> Picked(memory, {})[k].length]
    BY <2>1 DEF Pending
  <2>. QED BY <2>2, NoneLeft
<1>5. NothingForgotten
  BY <1>1, <1>3, <1>4 DEF NothingForgotten
<1>. QED BY <1>2, <1>5 DEF DeliveryInv

\* Packets of one connection arrive at it: as long as it is there, those that
\* SendPacketToUser or SendPacketToServer posted are those written to it, in
\* the order they were posted, and then those still in m_xEventBuffer.  When
\* it is gone, those written begin those posted.  Only a packet too long for
\* uTag makes processConnEvent lose its place.
THEOREM PostsAreKept == PathSpec => []NothingForgotten
<1>1. PathInit => DeliveryInv
  BY DeliveryInitially
<1>2. PathInv /\ ReaderTypeOK /\ DeliveryInv /\ [PathNext]_pathVars => DeliveryInv'
  BY DeliveryStep
<1>3. DeliveryInv => NothingForgotten
  BY DEF DeliveryInv
<1>. QED BY <1>1, <1>2, <1>3, PathInvariant, PathImplementsReader, ReaderTypeCorrect, PTL
         DEF PathSpec
-----------------------------------------------------------------------------
(* From the sender to the application at the other end.                    *)

\* The packets given to the application are the first ones in the stream,
\* and acceptable.
GivenInv ==
    /\ Len(delivered) <= Len(stream)
    /\ \A i \in 1..Len(delivered) : delivered[i] = stream[i] /\ Accepts(delivered[i].head)

\* Those among them that came through the buffer, by length.
Given ==
    LET queued == Picked(delivered, {i \in 1..Len(delivered) : origin[i] = "queue"})
    IN [k \in 1..Len(queued) |-> queued[k].head - HeaderLength]

\* The application at the other end is given what was posted, in the order it
\* was posted and without a gap, as far as it has been given anything.
GivenAsPosted ==
    OversizePosted \/ \E k \in 0..Len(posted) : Given = SubSeq(posted, 1, k)

\* The reader gives the packets of the stream one after the other.
LEMMA GivenStep == ReaderInv /\ GivenInv /\ [ReaderNext]_readerVars => GivenInv'
<1>. SUFFICES ASSUME ReaderInv, GivenInv, [ReaderNext]_readerVars
              PROVE  GivenInv'
  OBVIOUS
<1>1. /\ stream \in Seq(PacketType) /\ Len(stream) \in Nat
      /\ delivered \in Seq([at : Nat, head : Nat]) /\ Len(delivered) \in Nat
  BY DEF ReaderInv, ReaderTypeOK, PacketType
<1>2. ASSUME NEW h \in Heads, PeerWrites(h) PROVE GivenInv'
  <2>1. Packet(written, h) \in PacketType
    BY DEF ReaderInv, ReaderTypeOK, Packet, PacketType
  <2>2. stream' = Append(stream, Packet(written, h)) /\ delivered' = delivered
    BY <1>2 DEF PeerWrites
  <2>3. Len(stream') = Len(stream) + 1 /\ \A i \in 1..Len(stream) : stream'[i] = stream[i]
    BY <1>1, <2>1, <2>2
  <2>. QED BY <1>1, <2>2, <2>3 DEF GivenInv, Accepts
<1>3. CASE ReadBody
  <2>1. /\ Len(delivered) + 1 \in 1..Len(stream)
        /\ delivered' = Append(delivered, stream[Len(delivered) + 1])
        /\ Accepts(stream[Len(delivered) + 1].head) /\ stream' = stream
    BY <1>3, BodyIsThePackets DEF Next1, ReadBody
  <2>2. stream[Len(delivered) + 1] \in [at : Nat, head : Nat]
    BY <2>1, StreamType DEF ReaderInv
  <2>3. /\ Len(delivered') = Len(delivered) + 1
        /\ delivered'[Len(delivered) + 1] = stream[Len(delivered) + 1]
        /\ \A i \in 1..Len(delivered) : delivered'[i] = delivered[i]
    BY <1>1, <2>1, <2>2
  <2>4. \A i \in 1..Len(delivered) + 1 : i \in 1..Len(delivered) \/ i = Len(delivered) + 1
    BY <1>1
  <2>. QED BY <1>1, <2>1, <2>3, <2>4 DEF GivenInv, Accepts
<1>4. ASSUME UNCHANGED <<stream, delivered>> PROVE GivenInv'
  BY <1>4 DEF GivenInv, Accepts
<1>5. CASE Disconnect \/ NextHead \/ UNCHANGED readerVars
  BY <1>4, <1>5 DEF Disconnect, NextHead, readerVars
<1>6. ASSUME NEW h \in HeadAt(drained), ReadHead(h) PROVE GivenInv'
  BY <1>4, <1>6 DEF ReadHead, RejectHead, BodyIsHere, WaitForBody, TakeHead
<1>7. ASSUME NEW n \in 1..(written - arrived), ReadEvent(n) PROVE GivenInv'
  BY <1>4, <1>7 DEF ReadEvent
<1>. QED BY <1>2, <1>3, <1>5, <1>6, <1>7 DEF ReaderNext, WorkerReads

\* What has been given begins what has been written.
LEMMA GivenBegins ==
    ASSUME ReaderTypeOK, OriginInv, GivenInv
    PROVE  /\ Given \in Seq(Int) /\ Len(Given) <= Len(Forwarded)
           /\ \A k \in 1..Len(Given) : Given[k] = Forwarded[k]
<1>. DEFINE R == {i \in 1..Len(delivered) : origin[i] = "queue"}
            q == Picked(delivered, R)
            w == Picked(stream, FromQueue)
<1>1. /\ stream \in Seq(PacketType) /\ Len(stream) \in Nat /\ FromQueue \subseteq 1..Len(stream)
      /\ w \in Seq(PacketType) /\ Forwarded \in Seq(Int)
  BY ForwardedType
<1>2. delivered \in Seq(PacketType)
  <2>1. PICK A : A = [at : Nat, head : Nat]
    OBVIOUS
  <2>2. delivered \in Seq(A)
    BY <2>1 DEF ReaderTypeOK
  <2>3. Len(delivered) \in Nat /\ delivered \in [1..Len(delivered) -> A]
    BY ONLY <2>2
  <2>4. \A i \in 1..Len(delivered) : i \in 1..Len(stream) /\ delivered[i] = stream[i]
    <3>1. PICK m \in Nat, n \in Nat : m = Len(delivered) /\ n = Len(stream) /\ m <= n
      BY <1>1, <2>3 DEF GivenInv
    <3>2. \A i \in 1..m : i \in 1..n
      BY <3>1
    <3>3. \A i \in 1..m : delivered[i] = stream[i]
      BY <3>1 DEF GivenInv
    <3>. QED BY <3>1, <3>2, <3>3
  <2>5. \A i \in 1..Len(delivered) : delivered[i] \in PacketType
    BY <1>1, <2>4
  <2>6. delivered \in [1..Len(delivered) -> PacketType]
    BY <2>3, <2>5
  <2>. QED BY <2>3, <2>6
<1>3. R = {i \in FromQueue : i <= Len(delivered)}
  <2>1. Len(delivered) <= Len(stream) /\ Len(delivered) \in Nat
    BY <1>2 DEF GivenInv
  <2>. QED BY <1>1, <2>1 DEF FromQueue
<1>4. R \subseteq 1..Len(delivered) /\ q \in Seq(PacketType)
  BY <1>2, PickedType
<1>5. Len(q) <= Len(w) /\ \A k \in 1..Len(q) : q[k] = w[k]
  <2>1. PICK m \in Nat, n \in Nat : m = Len(delivered) /\ n = Len(stream) /\ m <= n
    BY <1>1, <1>2 DEF GivenInv
  <2>2. /\ FromQueue \subseteq 1..n /\ R \subseteq FromQueue /\ R \subseteq 1..m
        /\ FromQueue \cap (1..m) \subseteq R
    BY <1>1, <1>3, <1>4, <2>1
  <2>3. /\ Len(q) = Cardinality(R) /\ Len(w) = Cardinality(FromQueue)
        /\ \A k \in 1..Cardinality(R) : q[k] = delivered[Position(R, k)]
        /\ \A k \in 1..Cardinality(FromQueue) : w[k] = stream[Position(FromQueue, k)]
    <3>1. /\ Len(q) = Cardinality(R)
          /\ \A k \in 1..Cardinality(R) : q[k] = delivered[Position(R, k)]
      BY <1>2, <1>4, PickedType
    <3>2. /\ Len(w) = Cardinality(FromQueue)
          /\ \A k \in 1..Cardinality(FromQueue) : w[k] = stream[Position(FromQueue, k)]
      BY <1>1, PickedType
    <3>. QED BY <3>1, <3>2
  <2>. HIDE DEF R, q, w
  <2>4. PICK c \in Nat, d \in Nat : c = Cardinality(R) /\ d = Cardinality(FromQueue) /\ c <= d
    <3>1. IsFiniteSet(FromQueue) /\ Cardinality(FromQueue) \in Nat
      BY <2>2, SequencePositions
    <3>2. Cardinality(R) \in Nat
      BY <2>2, SequencePositions
    <3>. QED BY <2>2, <3>1, <3>2, FS_Subset
  <2>5. \A k \in 1..c : Position(R, k) \in 1..m /\ Position(R, k) = Position(FromQueue, k)
    <3>1. ASSUME NEW k \in 1..Cardinality(R)
          PROVE  Position(R, k) \in R /\ Position(R, k) = Position(FromQueue, k)
      <4>1. FromQueue \subseteq Int /\ IsFiniteSet(FromQueue) /\ R \in SUBSET FromQueue
        BY <2>2, SequencePositions
      <4>2. \A i \in R, j \in FromQueue : j <= i => j \in R
        BY <2>2
      <4>. QED BY <4>1, <4>2, PositionUpTo
    <3>2. R \subseteq 1..m
      BY <2>2
    <3>. QED BY <2>4, <3>1, <3>2
  <2>6. \A i \in 1..m : delivered[i] = stream[i]
    BY <2>1 DEF GivenInv
  <2>7. \A k \in 1..c : k \in 1..d
    BY <2>4
  <2>8. \A k \in 1..c : q[k] = w[k]
    BY <2>3, <2>4, <2>5, <2>6, <2>7
  <2>. QED BY <2>3, <2>4, <2>8
<1>6. Given = [k \in 1..Len(q) |-> q[k].head - HeaderLength]
  BY DEF Given
<1>7. Forwarded = [k \in 1..Len(w) |-> w[k].head - HeaderLength]
  BY DEF Forwarded
<1>. HIDE DEF R, q, w
<1>8. Given \in Seq(Int) /\ Len(Given) = Len(q) /\ Len(Forwarded) = Len(w)
  BY <1>1, <1>4, <1>6, <1>7, LengthsOfPackets
<1>9. Len(q) \in Nat /\ Len(w) \in Nat
  BY <1>1, <1>4
<1>10. ASSUME NEW k \in 1..Len(q) PROVE Given[k] = Forwarded[k]
  <2>1. k \in 1..Len(w)
    BY <1>5, <1>9
  <2>. QED BY <1>5, <1>6, <1>7, <2>1
<1>. QED BY <1>5, <1>8, <1>10

\* And what has been written begins what was posted.
LEMMA GivenIsPosted ==
    ASSUME PathInv, ReaderTypeOK, DeliveryInv, GivenInv
    PROVE  GivenAsPosted
<1>. SUFFICES ASSUME ~OversizePosted PROVE \E k \in 0..Len(posted) : Given = SubSeq(posted, 1, k)
  BY DEF GivenAsPosted
<1>1. OriginInv /\ BufferInv /\ Kept
  BY DEF PathInv, DeliveryInv, NothingForgotten, Kept
<1>2. posted \in Seq(Int) /\ Forwarded \in Seq(Int)
  BY <1>1, KeptTypes
<1>3. Len(Forwarded) <= Len(posted) /\ \A k \in 1..Len(Forwarded) : Forwarded[k] = posted[k]
  BY <1>1, <1>2, KeptBegins, Beginning
<1>4. /\ Given \in Seq(Int) /\ Len(Given) <= Len(Forwarded)
      /\ \A k \in 1..Len(Given) : Given[k] = Forwarded[k]
  BY <1>1, GivenBegins
<1>5. Len(Given) \in Nat /\ Len(Forwarded) \in Nat /\ Len(posted) \in Nat
  BY <1>2, <1>4
<1>6. Len(Given) <= Len(posted) /\ \A k \in 1..Len(Given) : Given[k] = posted[k]
  BY <1>3, <1>4, <1>5
<1>. QED BY <1>2, <1>4, <1>6, Beginning

\* However the two engines run and the network cuts the stream: the packets
\* that SendPacketToUser or SendPacketToServer posted are given to the
\* application at the other end in the order they were posted, none twice,
\* none made up, and none left out before one that is given, whatever
\* SyncSendPacketToUser sends in between.  Only a packet too long for uTag
\* breaks this.
THEOREM PostsArriveInOrder == PathSpec => []GivenAsPosted
<1>1. PathInit => DeliveryInv /\ GivenInv
  BY DeliveryInitially DEF PathInit, ReaderInit, GivenInv
<1>2. PathInv /\ ReaderInv /\ DeliveryInv /\ GivenInv /\ [PathNext]_pathVars
        => DeliveryInv' /\ GivenInv'
  BY DeliveryStep, GivenStep, ReaderSimulation DEF ReaderInv
<1>3. PathInv /\ ReaderInv /\ DeliveryInv /\ GivenInv => GivenAsPosted
  BY GivenIsPosted DEF ReaderInv
<1>. QED BY <1>1, <1>2, <1>3, PathInvariant, PathImplementsReader, ReaderInvariant, PTL
         DEF PathSpec
=============================================================================
