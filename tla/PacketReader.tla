------------------------------ MODULE PacketReader ------------------------------
(***************************************************************************)
(* SServerConn.cpp, readHead and readBody: one connection's stream of      *)
(* bytes is cut into packets.  A packet is a head of HeaderLength bytes,   *)
(* which holds the length of the whole packet, and a body.  Bytes are      *)
(* named by their position in the stream: a body is right when it comes    *)
(* from the right place.  libevent's input buffer holds the positions      *)
(* drained .. arrived-1.                                                   *)
(*                                                                         *)
(* Three early returns have no action, because WholeBody shows that they   *)
(* are not reached: an empty input in __onConnRead, a short head in        *)
(* readHead, a short body in readBody.                                     *)
(***************************************************************************)
EXTENDS Integers, Sequences

CONSTANTS
    HeaderLength,           \* DEF_NETPROTOCOL_HEADER_LENGTH
    MaxPacketLength,        \* m_uMaxPacketLength; 0 is no limit
    ReadBufferSize,         \* the first size of m_xReadBuffer
    Heads                   \* what peers write into heads

ASSUME ReaderAssumption ==
    /\ HeaderLength \in Nat \ {0} /\ MaxPacketLength \in Nat
    /\ ReadBufferSize \in Nat \ {0}
    /\ Heads \subseteq Nat

VARIABLES
    stream,                 \* auxiliary: the packets written, and where
    written,                \* how many bytes the peer has written
    arrived,                \* how many of them libevent has read
    drained,                \* how many the engine has drained
    headLength,             \* m_uPacketHeadLength
    lowMark,                \* the low watermark for EV_READ
    bufferLen,              \* the size of m_xReadBuffer
    delivered,              \* auxiliary: the packets given to the callback
    readPc,                 \* where the worker is with this connection
    open                    \* is the connection there?

readerVars == <<stream, written, arrived, drained, headLength, lowMark,
                bufferLen, delivered, readPc, open>>

Packet(pos, h) == [at |-> pos, head |-> h]

\* The heads readHead lets pass.
Accepts(h) == h > HeaderLength /\ (MaxPacketLength # 0 => h <= MaxPacketLength)

\* How many bytes a packet takes; one whose head is too small has no body.
Size(h) == IF h > HeaderLength THEN h ELSE HeaderLength

Available == arrived - drained
BodyLength == headLength - HeaderLength

\* What the HeaderLength bytes at a position say: the head written there;
\* in the middle of a packet, anything.
HeadAt(pos) ==
    IF \E j \in 1..Len(stream) : stream[j].at = pos
    THEN {stream[j].head : j \in {i \in 1..Len(stream) : stream[i].at = pos}}
    ELSE Heads

\* The connection as __onAcceptConn and processConnectAction set it up.
ReaderInit ==
    /\ stream = <<>> /\ written = 0 /\ arrived = 0 /\ drained = 0
    /\ headLength = 0
    /\ lowMark = HeaderLength
    /\ bufferLen = ReadBufferSize
    /\ delivered = <<>>
    /\ readPc = "loop"
    /\ open = TRUE
-----------------------------------------------------------------------------
\* The peer writes a packet.
PeerWrites(h) ==
    /\ open
    /\ stream' = Append(stream, Packet(written, h))
    /\ written' = written + Size(h)
    /\ UNCHANGED <<arrived, drained, headLength, lowMark, bufferLen,
                   delivered, readPc, open>>

\* libevent reads n bytes, and calls __onConnRead only from the watermark on.
ReadEvent(n) ==
    /\ readPc = "loop" /\ open
    /\ arrived' = arrived + n
    /\ readPc' = IF Available + n < lowMark THEN "loop"
                 ELSE IF headLength = 0 THEN "head" ELSE "body"
    /\ UNCHANGED <<stream, written, drained, headLength, lowMark, bufferLen,
                   delivered, open>>

\* readHead takes the head off the input.
TakeHead(h) ==
    /\ readPc = "head"
    /\ drained' = drained + HeaderLength
    /\ headLength' = h
    /\ UNCHANGED <<stream, written, arrived, bufferLen, delivered>>

\* The head is too small or too large: the connection is closed.
RejectHead(h) ==
    /\ TakeHead(h) /\ ~Accepts(h)
    /\ open' = FALSE
    /\ readPc' = "loop"
    /\ UNCHANGED lowMark

\* Fault: what was there with the head is compared with the body alone.
BodyIsNotHere(h) ==
    /\ TakeHead(h) /\ Accepts(h) /\ Available >= h - HeaderLength
    /\ readPc' = "body"
    /\ UNCHANGED <<lowMark, open>>

\* The body is in the input already.
BodyIsHere(h) ==
    /\ TakeHead(h) /\ Accepts(h) /\ Available >= h
    /\ readPc' = "body"
    /\ UNCHANGED <<lowMark, open>>

\* Fault: the watermark counts the head, which is drained already.
WaitForPacket(h) ==
    /\ TakeHead(h) /\ Accepts(h) /\ Available < h
    /\ lowMark' = h
    /\ readPc' = "loop"
    /\ UNCHANGED open

\* The body is awaited with a watermark of its length.
WaitForBody(h) ==
    /\ TakeHead(h) /\ Accepts(h) /\ Available < h
    /\ lowMark' = h - HeaderLength
    /\ readPc' = "loop"
    /\ UNCHANGED open

ReadHead(h) == RejectHead(h) \/ BodyIsHere(h) \/ WaitForBody(h)

\* Fault: the buffer is never enlarged.
ReadBodyInPlace ==
    /\ readPc = "body"
    /\ drained' = drained + BodyLength
    /\ delivered' = Append(delivered, Packet(drained - HeaderLength, headLength))
    /\ readPc' = "callback"
    /\ UNCHANGED <<stream, written, arrived, headLength, lowMark, bufferLen, open>>

\* Fault: all that is in the input is drained.
ReadAll ==
    /\ readPc = "body"
    /\ drained' = arrived
    /\ delivered' = Append(delivered, Packet(drained - HeaderLength, headLength))
    /\ readPc' = "callback"
    /\ UNCHANGED <<stream, written, arrived, headLength, lowMark, bufferLen, open>>

\* readBody: the buffer is enlarged once if need be, and the callback called.
ReadBody ==
    /\ readPc = "body"
    /\ bufferLen' = IF bufferLen < BodyLength THEN 2 * bufferLen ELSE bufferLen
    /\ drained' = drained + BodyLength
    /\ delivered' = Append(delivered, Packet(drained - HeaderLength, headLength))
    /\ readPc' = "callback"
    /\ UNCHANGED <<stream, written, arrived, headLength, lowMark, open>>

\* Fault: a head that is there already is left for the next read event.
AlwaysWaitForHead ==
    /\ readPc = "callback"
    /\ headLength' = 0
    /\ lowMark' = HeaderLength /\ readPc' = "loop"
    /\ UNCHANGED <<stream, written, arrived, drained, bufferLen, delivered, open>>

\* After the callback: the next head at once, or with the next read event.
NextHead ==
    /\ readPc = "callback"
    /\ headLength' = 0
    /\ \/ Available >= HeaderLength /\ readPc' = "head" /\ UNCHANGED lowMark
       \/ Available < HeaderLength /\ readPc' = "loop" /\ lowMark' = HeaderLength
    /\ UNCHANGED <<stream, written, arrived, drained, bufferLen, delivered, open>>

\* The connection is closed from elsewhere: by an event or a queued Close.
Disconnect ==
    /\ readPc = "loop" /\ open
    /\ open' = FALSE
    /\ UNCHANGED <<stream, written, arrived, drained, headLength, lowMark,
                   bufferLen, delivered, readPc>>

WorkerReads == (\E h \in HeadAt(drained) : ReadHead(h)) \/ ReadBody \/ NextHead

ReaderNext ==
    \/ \E h \in Heads : PeerWrites(h)
    \/ \E n \in 1..(written - arrived) : ReadEvent(n)
    \/ WorkerReads
    \/ Disconnect

ReaderSpec == ReaderInit /\ [][ReaderNext]_readerVars
-----------------------------------------------------------------------------
ReaderTypeOK ==
    /\ stream \in Seq([at : Nat, head : Heads])
    /\ written \in Nat /\ arrived \in 0..written /\ drained \in 0..arrived
    /\ headLength \in Nat /\ lowMark \in Nat /\ bufferLen \in Nat
    /\ delivered \in Seq([at : Nat, head : Nat])
    /\ readPc \in {"loop", "head", "body", "callback"}
    /\ open \in BOOLEAN

\* readHead never meets a short head, nor readBody a short or empty body:
\* the watermark, m_uPacketHeadLength and the lengths computed before the
\* callback agree about what is in the input, however the stream is cut.
WholeBody ==
    /\ readPc = "head" => Available >= HeaderLength
    /\ readPc = "body" => BodyLength > 0 /\ Available >= BodyLength

\* Nothing that could be read is left lying in the input until the peer
\* happens to send more: while libevent waits, what is there is less than
\* the watermark, and the watermark is what the next step needs (libevent
\* does not look at the input again when setwatermark lowers it).
NoStall ==
    open /\ readPc = "loop" =>
        /\ lowMark = IF headLength = 0 THEN HeaderLength ELSE BodyLength
        /\ Available < lowMark

\* One doubling is enough for every body, when the packet limit allows for
\* it: ReallocBuffer is called once, however long the body is.
BodyFits ==
    /\ MaxPacketLength # 0
    /\ MaxPacketLength - HeaderLength <= 2 * ReadBufferSize
    => (readPc = "callback" => BodyLength <= bufferLen)

\* The reader implements the channel: see PacketChannel.
Channel == INSTANCE PacketChannel WITH
    Acceptable <- {p \in [at : Nat, head : Nat] : Accepts(p.head)},
    sent <- stream, received <- delivered, connected <- open

ChannelSpec == Channel!ChannelSpec
=============================================================================
