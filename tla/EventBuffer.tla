------------------------------- MODULE EventBuffer -------------------------------
(***************************************************************************)
(* m_xEventBuffer at the level of its bytes: SServerBuffer.h with what     *)
(* the senders of SServerEngine.cpp write into it and processConnEvent     *)
(* reads out of it.  A record is an SServerAction and what follows it: the *)
(* payload of a Send, the context of a Connect, nothing for a Close.  The  *)
(* reader knows a payload's length from uTag alone, which has 16 bits.     *)
(*                                                                         *)
(* m_xSendMutex makes each call of a sender one step, and keeps senders    *)
(* out of a pass, but for the callbacks of the pass itself.                *)
(***************************************************************************)
EXTENDS Positions

CONSTANTS
    ActionSize,             \* sizeof(SServerAction)
    ContextSize,            \* sizeof(SServerActionConnectContext)
    InitialCapacity,        \* DEF_DEFAULT_ENGINE_WRITEBUFFERSIZE
    TagRange,               \* 2^16, what an unsigned short can tell apart
    Lengths                 \* the lengths of the packets that are sent

ASSUME BufferAssumption ==
    /\ ActionSize \in Nat \ {0} /\ ContextSize \in Nat
    /\ InitialCapacity \in Nat /\ TagRange \in Nat \ {0}
    /\ ActionSize <= InitialCapacity
    /\ ContextSize <= InitialCapacity /\ ContextSize < TagRange
    /\ Lengths \subseteq Nat

VARIABLES
    capacity,               \* m_uBufferLen
    dataLength,             \* m_uDataLength
    readOffset,             \* m_uReadOffset
    memory,                 \* auxiliary: the records since the last Reset
    pass                    \* is processConnEvent at work, or in a callback?

bufferVars == <<capacity, dataLength, readOffset, memory, pass>>

Record(op, pos, n) == [op |-> op, at |-> pos, length |-> n]
RecordEnd(r) == r.at + ActionSize + r.length

\* uTag: what is left of a length.
Tag(n) == n % TagRange

BufferInit ==
    /\ capacity = InitialCapacity
    /\ dataLength = 0
    /\ readOffset = 0
    /\ memory = <<>>
    /\ pass = "no"
-----------------------------------------------------------------------------
(* Writing.                                                                *)

\* Fault: what lies before the read offset is counted as free.
GrownLate(c, d, n) == IF c - (d - readOffset) < n THEN 2 * c ELSE c

\* Write to c bytes of which d are in use: they are doubled, once.
Grown(c, d, n) == IF d <= c /\ c - d < n THEN 2 * c ELSE c

\* Two calls of Write under one lock.
Put(op, n) ==
    /\ pass # "reading"
    /\ capacity' = Grown(Grown(capacity, dataLength, ActionSize),
                         dataLength + ActionSize, n)
    /\ dataLength' = dataLength + ActionSize + n
    /\ memory' = Append(memory, Record(op, dataLength, n))
    /\ UNCHANGED <<readOffset, pass>>

PutSend(n) == Put("Send", n)
PutConnect == Put("Connect", ContextSize)
PutClose == Put("Close", 0)
-----------------------------------------------------------------------------
(* Reading: processConnEvent.                                              *)

\* processConnEvent takes the mutex, woken by a byte that may be older than
\* what is in the buffer.
BeginPass ==
    /\ pass = "no"
    /\ pass' = "reading"
    /\ UNCHANGED <<capacity, dataLength, readOffset, memory>>

Readable == dataLength - readOffset

\* Fault: what is asked for is not clipped.
SkipBeyond(n) == readOffset' = readOffset + n

\* Read, which clips what is asked for.
Skip(n) ==
    readOffset' = readOffset + (IF n > Readable THEN Readable ELSE n)

\* Reset, when there is nothing left to keep.
Emptied == dataLength' = 0 /\ readOffset' = 0 /\ memory' = <<>>

\* The record whose SServerAction the next Read returns; none when the
\* reader is out of step and reads the middle of a payload.
RecordAt(pos) == {j \in 1..Len(memory) : memory[j].at = pos}

Taken(op, j) ==
    /\ pass = "reading" /\ Readable > 0
    /\ j \in RecordAt(readOffset) /\ memory[j].op = op
    /\ UNCHANGED <<capacity, dataLength, memory>>

\* Fault: the payload is skipped only when the connection is there.
TakeSendIfThere(j, there) ==
    /\ Taken("Send", j)
    /\ Skip(ActionSize + (IF there THEN Tag(memory[j].length) ELSE 0))
    /\ UNCHANGED pass

\* A packet goes to libevent if its connection is there; its payload is
\* skipped either way.
TakeSend(j, there) ==
    /\ Taken("Send", j)
    /\ Skip(ActionSize + Tag(memory[j].length))
    /\ UNCHANGED pass

\* A close has a disconnect callback if its connection is there.
TakeClose(j, there) ==
    /\ Taken("Close", j)
    /\ Skip(ActionSize)
    /\ pass' = IF there THEN "callback" ELSE "reading"

\* Fault: the context is left for the next Read.
TakeConnectLeavesContext(j) ==
    /\ Taken("Connect", j)
    /\ Skip(ActionSize)
    /\ pass' \in {"reading", "callback"}

\* A connect is refused in a callback, or waits for its result.
TakeConnect(j) ==
    /\ Taken("Connect", j)
    /\ Skip(ActionSize + ContextSize)
    /\ pass' \in {"reading", "callback"}

\* In the middle of a payload any action may be found: a Send with any tag,
\* a Connect, a Close ...
TakeStray(n) ==
    /\ pass = "reading" /\ Readable >= ActionSize
    /\ RecordAt(readOffset) = {}
    /\ Skip(ActionSize + n)
    /\ pass' \in {"reading", "callback"}
    /\ UNCHANGED <<capacity, dataLength, memory>>

\* ... or one that is no action, or less than one: all the rest is dropped.
DropRest ==
    /\ pass = "reading" /\ Readable > 0
    /\ RecordAt(readOffset) = {}
    /\ Emptied
    /\ UNCHANGED <<capacity, pass>>

CallbackEnds ==
    /\ pass = "callback"
    /\ pass' = "reading"
    /\ UNCHANGED <<capacity, dataLength, readOffset, memory>>

\* Fault: the buffer is reset with something left in it.
EndPassEarly ==
    /\ pass = "reading"
    /\ Emptied
    /\ pass' = "no"
    /\ UNCHANGED capacity

EndPass ==
    /\ pass = "reading" /\ Readable = 0
    /\ Emptied
    /\ pass' = "no"
    /\ UNCHANGED capacity
-----------------------------------------------------------------------------
Senders ==
    \/ \E n \in Lengths : PutSend(n)
    \/ PutConnect
    \/ PutClose

Reads ==
    \/ BeginPass \/ DropRest \/ CallbackEnds \/ EndPass
    \/ \E j \in 1..Len(memory), there \in BOOLEAN : TakeSend(j, there) \/ TakeClose(j, there)
    \/ \E j \in 1..Len(memory) : TakeConnect(j)
    \/ \E n \in 0..TagRange - 1 : TakeStray(n)

BufferNext == Senders \/ Reads

BufferSpec == BufferInit /\ [][BufferNext]_bufferVars
-----------------------------------------------------------------------------
BufferTypeOK ==
    /\ capacity \in Nat /\ dataLength \in Nat /\ readOffset \in Nat
    /\ memory \in Seq([op : {"Send", "Connect", "Close"}, at : Nat, length : Nat])
    /\ pass \in {"no", "reading", "callback"}
    /\ readOffset <= dataLength

\* No Write goes past the end of the buffer, although it is doubled once at
\* most and what is read gives no room back before Reset: enough as long as
\* no packet is longer than the buffer was to begin with.
WriteFits ==
    (\A n \in Lengths : n <= InitialCapacity) => dataLength <= capacity

\* Has the reader skipped only a part of a packet too long for uTag?
Misled == \E j \in 1..Len(memory) : memory[j].length >= TagRange /\ memory[j].at < readOffset

\* The reader stays in step with the senders: until it takes a packet too
\* long for uTag, processConnEvent finds SServerActions where the senders put
\* them, whatever happened to the connections meanwhile.
InStep == ~Misled => readOffset = dataLength \/ RecordAt(readOffset) # {}

\* The records that have not been read.
Ahead == {j \in 1..Len(memory) : memory[j].at >= readOffset}

\* The buffer's bytes implement a queue of actions: see ActionQueue.
Queue == INSTANCE ActionQueue WITH
    Sound <- [op : {"Send", "Connect", "Close"}, at : Nat, length : 0..TagRange - 1],
    queue <- IF Misled THEN <<>> ELSE Picked(memory, Ahead),
    lost <- Misled

QueueSpec == Queue!QueueSpec
=============================================================================
