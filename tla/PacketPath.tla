------------------------------- MODULE PacketPath -------------------------------
(***************************************************************************)
(* The way of a packet from one engine to another: SendPacketToUser (or    *)
(* ToServer) writes it into m_xEventBuffer, processConnEvent takes it out  *)
(* and puts a head before it, the network cuts the stream, and the other   *)
(* engine's readHead and readBody hand it to the application.              *)
(* SyncSendPacketToUser, which callbacks may use, goes past the buffer.    *)
(*                                                                         *)
(* Composes EventBuffer and PacketReader for one connection; what else is  *)
(* in the buffer belongs to others.                                        *)
(***************************************************************************)
EXTENDS EventBuffer, PacketReader, Positions

CONSTANTS
    MaxPackets,             \* bound: packets sent
    MaxPending              \* bound: records in the event buffer

ASSUME PathAssumption ==
    /\ MaxPackets \in Nat /\ MaxPending \in Nat
    /\ {HeaderLength + n : n \in Lengths \cup 0..TagRange - 1} \subseteq Heads

VARIABLES
    linked,                 \* does the sender have the connection, Connected?
    posted,                 \* auxiliary: the lengths put into the event buffer
    origin                  \* auxiliary: where each packet in stream is from

pathVars == <<bufferVars, readerVars, linked, posted, origin>>

PathInit ==
    /\ BufferInit /\ ReaderInit
    /\ linked = TRUE
    /\ posted = <<>>
    /\ origin = <<>>

\* The bounds, which restrict what the applications ask for.
MaySend == Len(posted) + Len(SelectSeq(origin, LAMBDA o : o = "sync")) < MaxPackets
MayPut == Len(memory) < MaxPending

\* The packet's head, which counts itself; libevent takes head and body.
Emit(n, from) ==
    \/ /\ linked
       /\ PeerWrites(HeaderLength + n)
       /\ origin' = Append(origin, from)
    \/ ~(linked /\ open) /\ UNCHANGED <<readerVars, origin>>
-----------------------------------------------------------------------------
\* SendPacketToUser, SendPacketToServer: refused when there is no connection.
Post(n) ==
    /\ linked /\ MaySend /\ MayPut
    /\ PutSend(n)
    /\ posted' = Append(posted, n)
    /\ UNCHANGED <<readerVars, linked, origin>>

\* SyncSendPacketToUser, SyncSendPacketToServer, in a callback: the length
\* goes into the head as it is.
SyncSend(n) ==
    /\ linked /\ MaySend /\ pass # "reading"
    /\ Emit(n, "sync")
    /\ UNCHANGED <<bufferVars, linked, posted>>

\* CloseUserConnection, CloseServerConnection and Connect.
PostOther ==
    /\ MayPut
    /\ PutClose \/ PutConnect
    /\ UNCHANGED <<readerVars, linked, posted, origin>>

\* processConnEvent takes a packet.
Forward(j) ==
    /\ TakeSend(j, linked)
    /\ Emit(Tag(memory[j].length), "queue")
    /\ UNCHANGED <<linked, posted>>

\* It takes a close, of this connection or of another one, or a connect.
TakeOther(j) ==
    /\ \/ TakeClose(j, linked) /\ linked' = FALSE
       \/ \E there \in BOOLEAN : TakeClose(j, there) /\ UNCHANGED linked
       \/ TakeConnect(j) /\ UNCHANGED linked
    /\ UNCHANGED <<readerVars, posted, origin>>

\* It takes what is no record: for a packet to this connection, its close,
\* or something else.  (MaxPackets bounds what reads as a packet.)
Misread(n) ==
    /\ TakeStray(n)
    /\ \/ Len(stream) < MaxPackets /\ Emit(n, "stray") /\ UNCHANGED linked
       \/ linked' \in {linked, FALSE} /\ UNCHANGED <<readerVars, origin>>
    /\ UNCHANGED posted

PassStep ==
    \/ \E j \in 1..Len(memory) : Forward(j) \/ TakeOther(j)
    \/ \E n \in 0..TagRange - 1 : Misread(n)
    \/ /\ BeginPass \/ DropRest \/ CallbackEnds \/ EndPass
       /\ UNCHANGED <<readerVars, linked, posted, origin>>

\* The sender learns from libevent that the connection is gone.
SenderCloses ==
    /\ linked /\ pass = "no"
    /\ linked' = FALSE
    /\ UNCHANGED <<bufferVars, readerVars, posted, origin>>

\* The other engine.
Arrive ==
    /\ \E n \in 1..(written - arrived) : ReadEvent(n)
    /\ UNCHANGED <<bufferVars, linked, posted, origin>>

ReceiverReads ==
    /\ WorkerReads
    /\ UNCHANGED <<bufferVars, linked, posted, origin>>

ReceiverCloses ==
    /\ Disconnect
    /\ UNCHANGED <<bufferVars, linked, posted, origin>>

PathNext ==
    \/ \E n \in Lengths : Post(n) \/ SyncSend(n)
    \/ PostOther
    \/ PassStep
    \/ SenderCloses
    \/ Arrive \/ ReceiverReads \/ ReceiverCloses

PathSpec == PathInit /\ [][PathNext]_pathVars

\* Both workers keep running and the network delivers; a byte for every
\* action in the buffer wakes the worker (SServerEngine: NoLostWakeup).
PathFairness == WF_pathVars(PassStep) /\ WF_pathVars(Arrive) /\ WF_pathVars(ReceiverReads)

FairPathSpec == PathSpec /\ PathFairness
-----------------------------------------------------------------------------
OversizePosted == \E k \in 1..Len(posted) : posted[k] >= TagRange

\* The packets in the stream that came through the buffer, and those still
\* in the buffer, by length.
FromQueue == {i \in 1..Len(stream) : origin[i] = "queue"}
Forwarded ==
    LET queued == Picked(stream, FromQueue)
    IN [k \in 1..Len(queued) |-> queued[k].head - HeaderLength]

Unread == {j \in 1..Len(memory) : memory[j].op = "Send" /\ memory[j].at >= readOffset}
Pending ==
    LET left == Picked(memory, Unread)
    IN [k \in 1..Len(left) |-> left[k].length]

\* Nothing is forgotten, doubled, mixed up or cut on the way through the
\* buffer: as long as the connection is there, what was posted is what has
\* been written to it, in the order it was posted, and then what is still in
\* the buffer; afterwards, what has been written begins what was posted.
\* Only packets too long for uTag break this.
NothingForgotten ==
    OversizePosted
    \/ IF linked /\ open
       THEN posted = Forwarded \o Pending
       ELSE \E k \in 0..Len(posted) : Forwarded = SubSeq(posted, 1, k)

\* A packet that is posted is received, unless the connection ends or a
\* packet too long for uTag was posted before it; a packet that the other
\* engine does not accept ends the connection.
PostsArrive ==
    \A k \in 1..MaxPackets :
        (Len(posted) >= k /\ \A i \in 1..k : posted[i] < TagRange)
        ~> \/ \E i \in FromQueue : /\ i <= Len(delivered)
                                   /\ k = Len(SelectSeq(SubSeq(origin, 1, i),
                                                        LAMBDA o : o = "queue"))
           \/ ~linked \/ ~open
=============================================================================
