--------------------------- MODULE PacketReader_proofs ---------------------------
(***************************************************************************)
(* Proofs about PacketReader, for every header length, packet limit,       *)
(* buffer size and set of heads: the invariants, and that the reader       *)
(* implements PacketChannel.                                               *)
(***************************************************************************)
EXTENDS PacketReader, TLAPS

\* The packets lie in the stream one behind the other, without a gap.
Laid ==
    /\ IF stream = <<>> THEN written = 0 ELSE stream[1].at = 0
    /\ \A i \in 1..Len(stream) :
          /\ stream[i].at + Size(stream[i].head) <= written
          /\ stream[i].at + Size(stream[i].head)
                = IF i = Len(stream) THEN written ELSE stream[i + 1].at
    /\ \A i, j \in 1..Len(stream) :
          i < j => stream[i].at + Size(stream[i].head) <= stream[j].at

\* The packet that is next to be delivered, and where it begins.
Next1 == Len(delivered) + 1
AtStart ==
    \/ Next1 \in 1..Len(stream) /\ drained = stream[Next1].at
    \/ Next1 = Len(stream) + 1 /\ drained = written

\* The reader is at the start of a packet, or behind the head it has taken.
Aligned ==
    /\ readPc # "loop" => open
    /\ open =>
        \/ headLength = 0 /\ readPc \in {"loop", "head"} /\ AtStart
        \/ /\ readPc \in {"loop", "body"}
           /\ Next1 \in 1..Len(stream)
           /\ headLength = stream[Next1].head /\ Accepts(headLength)
           /\ drained = stream[Next1].at + HeaderLength
        \/ readPc = "callback" /\ Accepts(headLength) /\ AtStart

BufferGrows ==
    /\ bufferLen >= ReadBufferSize
    /\ BodyFits

\* The inductive invariant.  Laid says that the head at a packet's start is
\* the packet's own; Aligned, that the reader only looks there.
ReaderInv == ReaderTypeOK /\ Laid /\ Aligned /\ WholeBody /\ NoStall /\ BufferGrows

-----------------------------------------------------------------------------
\* The elements of a sequence have its type.
LEMMA SeqElement ==
    ASSUME NEW T, NEW s \in Seq(T), NEW i \in 1..Len(s)
    PROVE  s[i] \in T
OBVIOUS

\* The type of a packet in the stream, and of its size.
LEMMA StreamType ==
    ASSUME ReaderTypeOK, NEW i \in 1..Len(stream)
    PROVE  /\ stream[i] \in [at : Nat, head : Heads]
           /\ stream[i] \in [at : Nat, head : Nat]
           /\ stream[i].at \in Nat /\ stream[i].head \in Nat
           /\ Size(stream[i].head) \in Nat /\ Size(stream[i].head) > 0
<1>1. stream[i] \in [at : Nat, head : Heads]
  BY SeqElement DEF ReaderTypeOK
<1>2. stream[i].at \in Nat /\ stream[i].head \in Nat /\ stream[i] \in [at : Nat, head : Nat]
  BY <1>1, ReaderAssumption
<1>. QED BY <1>1, <1>2, ReaderAssumption DEF Size

\* What arithmetic needs to know of the variables and constants.
LEMMA Numbers ==
    ASSUME ReaderTypeOK
    PROVE  /\ written \in Nat /\ arrived \in Nat /\ drained \in Nat
           /\ arrived <= written /\ drained <= arrived
           /\ headLength \in Nat /\ lowMark \in Nat /\ bufferLen \in Nat
           /\ Len(delivered) \in Nat /\ Len(stream) \in Nat
           /\ HeaderLength \in Nat \ {0} /\ MaxPacketLength \in Nat /\ ReadBufferSize \in Nat \ {0}
BY ReaderAssumption DEF ReaderTypeOK

\* A new connection satisfies the invariant.
LEMMA ReaderInitially == ReaderInit => ReaderInv
BY ReaderAssumption
DEF ReaderInit, ReaderInv, ReaderTypeOK, Laid, Aligned, AtStart, Next1, WholeBody,
    NoStall, BufferGrows, BodyFits, Available

\* At the start of a packet with a whole head in the input, there is a
\* packet, and the head that is read is that packet's.
LEMMA HeadIsThePackets ==
    ASSUME ReaderInv, readPc = "head", NEW h \in HeadAt(drained)
    PROVE  /\ headLength = 0 /\ open
           /\ Next1 \in 1..Len(stream)
           /\ drained = stream[Next1].at
           /\ h = stream[Next1].head /\ h \in Nat
<1>. USE ReaderAssumption
<1>1. open /\ headLength = 0 /\ AtStart /\ Available >= HeaderLength
  BY DEF ReaderInv, Aligned, WholeBody
<1>2. Next1 \in 1..Len(stream) /\ drained = stream[Next1].at
  BY <1>1 DEF ReaderInv, ReaderTypeOK, AtStart, Available
<1>3. ASSUME NEW i \in 1..Len(stream), stream[i].at = drained
      PROVE  i = Next1
  <2>1. /\ stream[i].at \in Nat /\ stream[Next1].at \in Nat
        /\ Size(stream[i].head) \in Nat /\ Size(stream[Next1].head) \in Nat
        /\ Size(stream[i].head) > 0 /\ Size(stream[Next1].head) > 0
    BY <1>2, <1>3, StreamType DEF ReaderInv
  <2>2. /\ i < Next1 => stream[i].at + Size(stream[i].head) <= stream[Next1].at
        /\ Next1 < i => stream[Next1].at + Size(stream[Next1].head) <= stream[i].at
    BY <1>2, <1>3 DEF ReaderInv, Laid
  <2>. QED BY <1>2, <1>3, <2>1, <2>2
<1>4. HeadAt(drained) = {stream[Next1].head}
  BY <1>2, <1>3 DEF HeadAt
<1>5. stream[Next1].head \in Nat
  BY <1>2, StreamType DEF ReaderInv
<1>. QED BY <1>1, <1>2, <1>4, <1>5

-----------------------------------------------------------------------------
\* A packet that the peer appends to the stream keeps the invariant.
LEMMA PeerWritesKeeps ==
    ASSUME ReaderInv, NEW h \in Heads, PeerWrites(h)
    PROVE  ReaderInv'
<1>. DEFINE p == Packet(written, h)
            n == Len(stream)
<1>1. /\ h \in Nat /\ Size(h) \in Nat /\ written \in Nat /\ n \in Nat
      /\ p \in [at : Nat, head : Heads] /\ p.at = written /\ p.head = h
  BY ReaderAssumption, Numbers DEF ReaderInv, Size, Packet
<1>2. /\ stream' = Append(stream, p) /\ written' = written + Size(h)
      /\ UNCHANGED <<arrived, drained, headLength, lowMark, bufferLen, delivered, readPc, open>>
  BY DEF PeerWrites
<1>3. stream \in Seq([at : Nat, head : Heads])
  BY DEF ReaderInv, ReaderTypeOK
<1>4. /\ stream' \in Seq([at : Nat, head : Heads]) /\ Len(stream') = n + 1
      /\ \A i \in 1..n : stream'[i] = stream[i]
      /\ stream'[n + 1] = p
  BY <1>1, <1>2, <1>3
<1>5. \A i \in 1..n : /\ stream[i].at \in Nat /\ Size(stream[i].head) \in Nat
                      /\ stream[i].at + Size(stream[i].head) <= written
  BY StreamType DEF ReaderInv, Laid
<1>. HIDE DEF p, n
<1>6. ReaderTypeOK'
  BY <1>1, <1>2, <1>4 DEF ReaderInv, ReaderTypeOK
<1>7. Laid'
  <2>1. p.at + Size(p.head) = written' /\ written' \in Nat
    BY <1>1, <1>2
  <2>2. \A i \in 1..n : stream[i].at + Size(stream[i].head)
                          = IF i = n THEN written ELSE stream[i + 1].at
    BY DEF ReaderInv, Laid, n
  <2>3. \A i, j \in 1..n : i < j => stream[i].at + Size(stream[i].head) <= stream[j].at
    BY DEF ReaderInv, Laid, n
  <2>4. n = 0 => written = 0
    BY <1>3 DEF ReaderInv, Laid, n
  <2>5. n # 0 => stream[1].at = 0
    BY <1>3 DEF ReaderInv, Laid, n
  <2>6. ASSUME NEW i \in 1..n + 1
        PROVE  /\ stream'[i].at + Size(stream'[i].head) <= written'
               /\ stream'[i].at + Size(stream'[i].head)
                    = IF i = n + 1 THEN written' ELSE stream'[i + 1].at
    <3>1. CASE i = n + 1
      BY <1>4, <2>1, <3>1
    <3>2. CASE i = n
      <4>1. i \in 1..n /\ i # n + 1 /\ stream'[i] = stream[i] /\ stream'[i + 1] = p
        BY <1>1, <1>4, <3>2
      <4>2. stream[i].at + Size(stream[i].head) = written
        BY <2>2, <3>2, <4>1
      <4>. QED BY <1>1, <1>2, <4>1, <4>2
    <3>3. CASE i \in 1..n /\ i # n
      <4>1. /\ i + 1 \in 1..n /\ i # n + 1
            /\ stream'[i] = stream[i] /\ stream'[i + 1] = stream[i + 1]
        BY <1>1, <1>4, <3>3
      <4>2. stream[i].at + Size(stream[i].head) = stream[i + 1].at
        BY <2>2, <3>3
      <4>3. stream[i].at + Size(stream[i].head) <= written'
        BY <1>1, <1>2, <1>5, <3>3
      <4>. QED BY <4>1, <4>2, <4>3
    <3>. QED BY <1>1, <3>1, <3>2, <3>3
  <2>7. ASSUME NEW i \in 1..n + 1, NEW j \in 1..n + 1, i < j
        PROVE  stream'[i].at + Size(stream'[i].head) <= stream'[j].at
    <3>1. i \in 1..n /\ stream'[i] = stream[i]
      BY <1>1, <1>4, <2>7
    <3>2. CASE j = n + 1
      BY <1>1, <1>4, <1>5, <3>1, <3>2
    <3>3. CASE j \in 1..n
      BY <1>4, <2>3, <2>7, <3>1, <3>3
    <3>. QED BY <1>1, <3>2, <3>3
  <2>8. stream' # <<>> /\ stream'[1].at = 0
    <3>1. stream' # <<>>
      BY <1>2, <1>3
    <3>2. CASE n = 0
      <4>1. stream'[1] = p
        BY <1>4, <3>2
      <4>. QED BY <1>1, <2>4, <3>1, <3>2, <4>1
    <3>3. CASE n # 0
      <4>1. 1 \in 1..n
        BY <1>1, <3>3
      <4>. QED BY <1>4, <2>5, <3>1, <3>3, <4>1
    <3>. QED BY <3>2, <3>3
  <2>9. Len(stream') = n + 1
    BY <1>4
  <2>. QED BY <2>6, <2>7, <2>8, <2>9 DEF Laid, Size
<1>8. AtStart => AtStart'
  BY <1>1, <1>2, <1>4 DEF AtStart, Next1, n
<1>9. Aligned'
  <2>1. /\ Next1' = Next1
        /\ Next1 \in 1..n => Next1 \in 1..Len(stream') /\ stream'[Next1] = stream[Next1]
    BY <1>1, <1>2, <1>4 DEF Next1
  <2>. QED BY <1>2, <1>8, <2>1 DEF ReaderInv, Aligned, Accepts, n
<1>10. WholeBody' /\ NoStall' /\ BufferGrows'
  BY <1>2 DEF ReaderInv, WholeBody, NoStall, BufferGrows, BodyFits, Available, BodyLength
<1>. QED BY <1>6, <1>7, <1>9, <1>10 DEF ReaderInv

\* So do bytes that libevent reads, however many.
LEMMA ReadEventKeeps ==
    ASSUME ReaderInv, NEW n \in 1..(written - arrived), ReadEvent(n)
    PROVE  ReaderInv'
<1>. USE ReaderAssumption DEF ReaderInv, ReaderTypeOK, ReadEvent
<1>1. ReaderTypeOK' /\ Laid'
  BY DEF Laid, Size
<1>2. Aligned'
  BY DEF Aligned, AtStart, Next1, Accepts
<1>3. WholeBody' /\ NoStall'
  BY DEF WholeBody, NoStall, Available, BodyLength, Aligned, Accepts
<1>4. BufferGrows'
  BY DEF BufferGrows, BodyFits, BodyLength
<1>. QED BY <1>1, <1>2, <1>3, <1>4

\* So does readHead, in each of its exits.
LEMMA ReadHeadKeeps ==
    ASSUME ReaderInv, NEW h \in HeadAt(drained), ReadHead(h)
    PROVE  ReaderInv'
<1>. USE ReaderAssumption
<1>1. /\ UNCHANGED <<stream, written, arrived, bufferLen, delivered>>
      /\ drained' = drained + HeaderLength /\ headLength' = h /\ readPc = "head"
  BY DEF ReadHead, RejectHead, BodyIsHere, WaitForBody, TakeHead
<1>2. /\ headLength = 0 /\ open /\ Next1 \in 1..Len(stream)
      /\ drained = stream[Next1].at /\ h = stream[Next1].head /\ h \in Nat
  BY <1>1, HeadIsThePackets
<1>3. Available >= HeaderLength
  BY <1>1 DEF ReaderInv, WholeBody
<1>4. /\ written \in Nat /\ arrived \in Nat /\ drained \in Nat /\ lowMark \in Nat
      /\ bufferLen \in Nat /\ arrived <= written /\ drained' \in 0..arrived
  BY <1>1, <1>3, Numbers DEF ReaderInv, Available
<1>5. Laid'
  BY <1>1 DEF ReaderInv, Laid, Size
<1>6. bufferLen' >= ReadBufferSize /\ readPc' # "callback" => BufferGrows'
  BY DEF BufferGrows, BodyFits
<1>7. bufferLen' >= ReadBufferSize
  BY <1>1 DEF ReaderInv, BufferGrows
<1>. HIDE ReaderAssumption
<1>7a. /\ HeaderLength \in Nat \ {0} /\ Available \in Nat
       /\ Available' = Available - HeaderLength /\ BodyLength' = h - HeaderLength
  BY <1>1, <1>4, ReaderAssumption DEF Available, BodyLength
<1>8. CASE RejectHead(h)
  <2>1. readPc' = "loop" /\ open' = FALSE /\ lowMark' = lowMark
    BY <1>8 DEF RejectHead
  <2>2. ReaderTypeOK'
    BY <1>1, <1>2, <1>4, <2>1 DEF ReaderInv, ReaderTypeOK
  <2>. QED BY <1>5, <1>6, <1>7, <2>1, <2>2 DEF ReaderInv, Aligned, WholeBody, NoStall
<1>9. CASE BodyIsHere(h)
  <2>1. readPc' = "body" /\ open' = open /\ lowMark' = lowMark /\ Accepts(h) /\ Available >= h
    BY <1>9 DEF BodyIsHere
  <2>2. ReaderTypeOK'
    BY <1>1, <1>2, <1>4, <2>1 DEF ReaderInv, ReaderTypeOK
  <2>3. Aligned'
    BY <1>1, <1>2, <2>1 DEF Aligned, Next1, Accepts
  <2>4. WholeBody' /\ NoStall'
    BY <1>1, <1>2, <1>7a, <2>1 DEF WholeBody, NoStall, Accepts
  <2>. QED BY <1>5, <1>6, <1>7, <2>1, <2>2, <2>3, <2>4 DEF ReaderInv
<1>10. CASE WaitForBody(h)
  <2>1. /\ readPc' = "loop" /\ open' = open /\ lowMark' = h - HeaderLength
        /\ Accepts(h) /\ Available < h
    BY <1>10 DEF WaitForBody
  <2>1a. lowMark' \in Nat
    BY <1>2, <1>7a, <2>1 DEF Accepts
  <2>2. ReaderTypeOK'
    BY <1>1, <1>2, <1>4, <2>1, <2>1a DEF ReaderInv, ReaderTypeOK
  <2>3. Aligned'
    BY <1>1, <1>2, <2>1 DEF Aligned, Next1, Accepts
  <2>4. WholeBody' /\ NoStall'
    BY <1>1, <1>2, <1>7a, <2>1 DEF WholeBody, NoStall, Accepts
  <2>. QED BY <1>5, <1>6, <1>7, <2>1, <2>2, <2>3, <2>4 DEF ReaderInv
<1>. QED BY <1>8, <1>9, <1>10 DEF ReadHead

\* What readBody hands over is the next packet of the stream, whole.
LEMMA BodyIsThePackets ==
    ASSUME ReaderInv, ReadBody
    PROVE  /\ open /\ Next1 \in 1..Len(stream)
           /\ delivered' = Append(delivered, stream[Next1])
           /\ Accepts(stream[Next1].head) /\ headLength = stream[Next1].head
           /\ drained = stream[Next1].at + HeaderLength
           /\ drained' = stream[Next1].at + Size(stream[Next1].head)
           /\ drained' <= arrived
<1>1. /\ open /\ Next1 \in 1..Len(stream)
      /\ headLength = stream[Next1].head /\ Accepts(headLength)
      /\ drained = stream[Next1].at + HeaderLength
      /\ BodyLength > 0 /\ Available >= BodyLength
  BY DEF ReaderInv, ReadBody, Aligned, WholeBody
<1>2. /\ stream[Next1] \in [at : Nat, head : Nat]
      /\ stream[Next1].at \in Nat /\ stream[Next1].head \in Nat
      /\ drained \in Nat /\ arrived \in Nat /\ HeaderLength \in Nat
  BY <1>1, StreamType, Numbers DEF ReaderInv
<1>3. Packet(drained - HeaderLength, headLength) = stream[Next1]
  BY <1>1, <1>2 DEF Packet
<1>4. /\ drained' = stream[Next1].at + Size(stream[Next1].head)
      /\ drained' <= arrived
  <2>1. drained' = drained + (headLength - HeaderLength)
    BY DEF ReadBody, BodyLength
  <2>2. Size(stream[Next1].head) = headLength
    BY <1>1 DEF Size, Accepts
  <2>3. arrived - drained >= headLength - HeaderLength
    BY <1>1 DEF Available, BodyLength
  <2>. QED BY <1>1, <1>2, <2>1, <2>2, <2>3
<1>. QED BY <1>1, <1>3, <1>4 DEF ReadBody

\* So does readBody up to the callback.
LEMMA ReadBodyKeeps ==
    ASSUME ReaderInv, ReadBody
    PROVE  ReaderInv'
<1>. USE ReaderAssumption
<1>1. /\ UNCHANGED <<stream, written, arrived, headLength, lowMark, open>>
      /\ bufferLen' = IF bufferLen < BodyLength THEN 2 * bufferLen ELSE bufferLen
      /\ readPc' = "callback"
  BY DEF ReadBody
<1>2. /\ open /\ Next1 \in 1..Len(stream)
      /\ delivered' = Append(delivered, stream[Next1])
      /\ Accepts(stream[Next1].head) /\ headLength = stream[Next1].head
      /\ drained' = stream[Next1].at + Size(stream[Next1].head)
      /\ drained' <= arrived
  BY BodyIsThePackets
<1>3. /\ stream[Next1] \in [at : Nat, head : Nat] /\ stream[Next1].head \in Nat
      /\ stream[Next1].at \in Nat /\ Size(stream[Next1].head) \in Nat
  BY <1>2, StreamType DEF ReaderInv
<1>4. Len(delivered') = Len(delivered) + 1 /\ delivered' \in Seq([at : Nat, head : Nat])
  BY <1>2, <1>3 DEF ReaderInv, ReaderTypeOK
<1>5. /\ written \in Nat /\ arrived \in Nat /\ bufferLen \in Nat
      /\ Len(stream) \in Nat /\ Len(delivered) \in Nat
  BY Numbers DEF ReaderInv
<1>6. bufferLen' \in Nat /\ BufferGrows'
  BY <1>1, <1>2, <1>3, <1>5 DEF ReaderInv, BufferGrows, BodyFits, BodyLength, Accepts
<1>7. ReaderTypeOK'
  BY <1>1, <1>2, <1>3, <1>4, <1>5, <1>6 DEF ReaderInv, ReaderTypeOK
<1>8. Laid'
  BY <1>1 DEF ReaderInv, Laid, Size
<1>9. AtStart'
  <2>1. Next1' = Next1 + 1 /\ Next1 \in Nat
    BY <1>4, <1>5 DEF Next1
  <2>2. drained' = IF Next1 = Len(stream) THEN written ELSE stream[Next1 + 1].at
    BY <1>2 DEF ReaderInv, Laid
  <2>. QED BY <1>1, <1>2, <1>5, <2>1, <2>2 DEF AtStart
<1>10. Aligned'
  BY <1>1, <1>2, <1>9 DEF Aligned, Accepts
<1>11. WholeBody' /\ NoStall'
  BY <1>1 DEF WholeBody, NoStall
<1>. QED BY <1>6, <1>7, <1>8, <1>10, <1>11 DEF ReaderInv

\* So does readBody after the callback.
LEMMA NextHeadKeeps ==
    ASSUME ReaderInv, NextHead
    PROVE  ReaderInv'
<1>. USE ReaderAssumption DEF ReaderInv, ReaderTypeOK, NextHead
<1>1. open /\ AtStart
  BY DEF Aligned
<1>2. ReaderTypeOK' /\ Laid' /\ BufferGrows'
  BY DEF Laid, Size, BufferGrows, BodyFits
<1>3. Aligned'
  BY <1>1 DEF Aligned, AtStart, Next1
<1>4. WholeBody' /\ NoStall'
  BY DEF WholeBody, NoStall, Available
<1>. QED BY <1>2, <1>3, <1>4

\* So does a close from elsewhere.
LEMMA DisconnectKeeps ==
    ASSUME ReaderInv, Disconnect
    PROVE  ReaderInv'
BY DEF Disconnect, ReaderInv, ReaderTypeOK, Laid, Size, Aligned, WholeBody, NoStall,
       BufferGrows, BodyFits, Available, BodyLength

\* So does a step of others.
LEMMA ReaderStutters ==
    ASSUME ReaderInv, UNCHANGED readerVars
    PROVE  ReaderInv'
BY DEF readerVars, ReaderInv, ReaderTypeOK, Laid, Size, Aligned, AtStart, Next1, Accepts,
       WholeBody, NoStall, BufferGrows, BodyFits, Available, BodyLength

\* The invariant is inductive.
LEMMA ReaderStep == ReaderInv /\ [ReaderNext]_readerVars => ReaderInv'
<1>1. SUFFICES ASSUME ReaderInv, [ReaderNext]_readerVars
               PROVE  ReaderInv'
  OBVIOUS
<1>2. ASSUME NEW h \in Heads, PeerWrites(h) PROVE ReaderInv'
  BY <1>1, <1>2, PeerWritesKeeps
<1>3. ASSUME NEW n \in 1..(written - arrived), ReadEvent(n) PROVE ReaderInv'
  BY <1>1, <1>3, ReadEventKeeps
<1>4. ASSUME NEW h \in HeadAt(drained), ReadHead(h) PROVE ReaderInv'
  BY <1>1, <1>4, ReadHeadKeeps
<1>5. CASE ReadBody
  BY <1>1, <1>5, ReadBodyKeeps
<1>6. CASE NextHead
  BY <1>1, <1>6, NextHeadKeeps
<1>7. CASE Disconnect
  BY <1>1, <1>7, DisconnectKeeps
<1>8. CASE UNCHANGED readerVars
  BY <1>1, <1>8, ReaderStutters
<1>. QED BY <1>1, <1>2, <1>3, <1>4, <1>5, <1>6, <1>7, <1>8 DEF ReaderNext, WorkerReads

\* The inductive invariant of the reader holds in every reachable state.
THEOREM ReaderInvariant == ReaderSpec => []ReaderInv
<1>1. ReaderInit => ReaderInv
  BY ReaderInitially
<1>2. ReaderInv /\ [ReaderNext]_readerVars => ReaderInv'
  BY ReaderStep
<1>. QED BY <1>1, <1>2, PTL DEF ReaderSpec

\* Every variable of the reader keeps its type, and the reader never drains
\* what has not arrived (evbuffer_drain in readHead and readBody).
THEOREM ReaderTypeCorrect == ReaderSpec => []ReaderTypeOK
<1>1. ReaderInv => ReaderTypeOK
  BY DEF ReaderInv
<1>. QED BY <1>1, ReaderInvariant, PTL

\* readHead never meets a short head, nor readBody a short or empty body,
\* however the stream is cut.
THEOREM BodiesAreWhole == ReaderSpec => []WholeBody
<1>1. ReaderInv => WholeBody
  BY DEF ReaderInv
<1>. QED BY <1>1, ReaderInvariant, PTL

\* Nothing that could be read waits in the input for the peer to send more:
\* the watermark is always what the next step needs.
THEOREM ReaderNeverStalls == ReaderSpec => []NoStall
<1>1. ReaderInv => NoStall
  BY DEF ReaderInv
<1>. QED BY <1>1, ReaderInvariant, PTL

\* One doubling of m_xReadBuffer is enough for every body, when the packet
\* limit is within twice its first size.
THEOREM BodiesFit == ReaderSpec => []BodyFits
<1>1. ReaderInv => BodyFits
  BY DEF ReaderInv, BufferGrows
<1>. QED BY <1>1, ReaderInvariant, PTL

-----------------------------------------------------------------------------
\* Initial states are initial states of the channel.
LEMMA ChannelInitially == ReaderInit => Channel!ChannelInit
BY DEF ReaderInit, Channel!ChannelInit

\* Every step is a step of the channel or a stutter.
LEMMA ChannelStep ==
    ASSUME ReaderInv, [ReaderNext]_readerVars
    PROVE  [Channel!ChannelNext]_(Channel!channelVars)
<1>. USE DEF Channel!channelVars
<1>1. ASSUME NEW h \in Heads, PeerWrites(h) PROVE Channel!Send
  <2>1. /\ stream \in Seq([at : Nat, head : Heads]) /\ stream' = Append(stream, Packet(written, h))
        /\ Packet(written, h) \in [at : Nat, head : Heads]
    BY <1>1 DEF PeerWrites, ReaderInv, ReaderTypeOK, Packet
  <2>2. Len(stream') = Len(stream) + 1 /\ stream' = Append(stream, stream'[Len(stream) + 1])
    BY <2>1
  <2>. QED BY <1>1, <2>2 DEF PeerWrites, Channel!Send
<1>2. ASSUME NEW n \in 1..(written - arrived), ReadEvent(n)
      PROVE  UNCHANGED Channel!channelVars
  BY <1>2 DEF ReadEvent
<1>3. ASSUME NEW h \in HeadAt(drained), ReadHead(h)
      PROVE  Channel!Close \/ UNCHANGED Channel!channelVars
  BY <1>3 DEF ReadHead, RejectHead, BodyIsHere, WaitForBody, TakeHead, Channel!Close
<1>4. CASE ReadBody
  <2>1. /\ open /\ Next1 \in 1..Len(stream) /\ delivered' = Append(delivered, stream[Next1])
        /\ Accepts(stream[Next1].head)
    BY <1>4, BodyIsThePackets
  <2>2. stream[Next1] \in [at : Nat, head : Nat] /\ Len(delivered) \in Nat
    BY <2>1, StreamType DEF ReaderInv, ReaderTypeOK
  <2>3. Channel!Receive
    BY <1>4, <2>1, <2>2 DEF ReadBody, Next1, Channel!Receive
  <2>. QED BY <2>3 DEF Channel!ChannelNext
<1>5. CASE NextHead
  BY <1>5 DEF NextHead
<1>6. CASE Disconnect
  BY <1>6 DEF Disconnect, Channel!ChannelNext, Channel!Close
<1>7. CASE UNCHANGED readerVars
  BY <1>7 DEF readerVars
<1>. QED BY <1>1, <1>2, <1>3, <1>4, <1>5, <1>6, <1>7
         DEF ReaderNext, WorkerReads, Channel!ChannelNext

\* readHead and readBody implement the channel: what the application is
\* given are the packets the peer wrote, whole, acceptable, one by one and
\* in order, until the connection is closed.
THEOREM ImplementsChannel == ReaderSpec => ChannelSpec
<1>1. ReaderInit => Channel!ChannelInit
  BY ChannelInitially
<1>2. ReaderInv /\ [ReaderNext]_readerVars => [Channel!ChannelNext]_(Channel!channelVars)
  BY ChannelStep
<1>. QED BY <1>1, <1>2, ReaderInvariant, PTL DEF ReaderSpec, ChannelSpec, Channel!ChannelSpec
=============================================================================
