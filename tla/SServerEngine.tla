------------------------------ MODULE SServerEngine ------------------------------
(***************************************************************************)
(* The running engine (SServerEngine.cpp, SServerConn.cpp): application    *)
(* threads queue actions in m_xEventBuffer under m_xSendMutex and wake the *)
(* worker through a socket pair; the worker, in libevent's loop, handles   *)
(* the events of the sockets and the queued actions, and calls the         *)
(* application back.  A step of the worker runs from one point where other *)
(* threads or the application can act to the next: a callback, a lock.     *)
(***************************************************************************)
EXTENDS IndexQueue, FiniteSets

CONSTANTS
    MaxConnUser,            \* m_uMaxConnUser
    MaxConnServer,          \* m_uMaxConnServer
    ConnPtr,                \* the addresses an SServerConn can have
    NoConn,                 \* the NULL pointer
    Threads,                \* the application's own threads
    Worker,                 \* the thread of __threadEntry
    Nobody,                 \* the owner of a free mutex
    Sides,                  \* the sides in use: clients connect to the
                            \* "user" side, the application to a "server"
    ThreadCalls,            \* what the application's threads call
    CallbackCalls,          \* what the application calls in callbacks
    PerCaller,              \* bound: queued actions of one caller
    PerCallback,            \* bound: calls made during one callback
    MaxDrift                \* bound: no Connect with the server count below -MaxDrift

Kind == {"user", "server"}
MaxConn(k) == IF k = "user" THEN MaxConnUser ELSE MaxConnServer
Slot == {<<"user", i>> : i \in 1..MaxConnUser} \cup {<<"server", i>> : i \in 1..MaxConnServer}
Caller == Threads \cup {Worker}

ASSUME ConstantsAssumption ==
    /\ MaxConnUser \in Nat /\ MaxConnUser > 1
    /\ MaxConnServer \in Nat /\ MaxConnServer > 1
    /\ IsFiniteSet(ConnPtr) /\ NoConn \notin ConnPtr
    /\ Worker \notin Threads /\ Nobody \notin Caller
    /\ Sides \subseteq Kind
    /\ ThreadCalls \subseteq {"Send", "Close", "Connect"}
    /\ CallbackCalls \subseteq {"Send", "Close", "Connect", "SyncConnect"}
    /\ PerCaller \in Nat /\ PerCallback \in Nat /\ MaxDrift \in Nat

VARIABLES
    indexMgr,               \* m_xUserIndexMgr, m_xServerIndexMgr: free indexes
    connArray,              \* m_pUserConnArray, m_pServerConnArray, by slot
    conn,                   \* the SServerConn at each address
    connectedCount,         \* m_nConnectedUserCount, m_nConnectedServerCount
    eventBuffer,            \* the actions in m_xEventBuffer
    sendMutex,              \* the owner of m_xSendMutex
    pipe,                   \* is there a byte in m_arraySocketPair?
    call,                   \* the engine call each application thread is in
    workerPc,               \* where the worker is in __onThreadRead
    frame                   \* the callback the worker is in

connVars == <<indexMgr, connArray, conn, connectedCount>>
queueVars == <<eventBuffer, sendMutex, pipe, call>>
vars == <<indexMgr, connArray, conn, connectedCount,
          eventBuffer, sendMutex, pipe, call, workerPc, frame>>

\* A connection; eConnState is "deleted" where no object is.
Conn(k, i, st) == [kind |-> k, uConnIndex |-> i, eConnState |-> st]
Deleted == Conn("user", InvalidIndex, "deleted")
IsLive(p) == conn[p].eConnState # "deleted"
SlotOf(p) == <<conn[p].kind, conn[p].uConnIndex>>

\* A queued action: uAction and uIndex, and (auxiliary) who queued it and
\* the connection that a Send was meant for.
Action(op, s, by, p) == [op |-> op, slot |-> s, by |-> by, aim |-> p]
NoSlot == <<"server", InvalidIndex>>
NoAction == Action("none", NoSlot, Worker, NoConn)

\* The callback the worker is in: which, for which connection, how many
\* calls the application has made in it, and how many failure callbacks of
\* SyncConnect are open inside it.
Callback(cb, p) == [cb |-> cb, conn |-> p, calls |-> 0, depth |-> 0]
NoFrame == Callback("none", NoConn)
InCallback == frame.cb # "none"
AtLoop == workerPc = "loop" /\ ~InCallback

Init ==
    /\ indexMgr = [k \in Kind |-> FullPool(MaxConn(k))]
    /\ connArray = [s \in Slot |-> NoConn]
    /\ conn = [p \in ConnPtr |-> Deleted]
    /\ connectedCount = [k \in Kind |-> 0]
    /\ eventBuffer = <<>>
    /\ sendMutex = Nobody
    /\ pipe = FALSE
    /\ call = [t \in Threads |-> [pc |-> "idle", act |-> NoAction]]
    /\ workerPc = "loop"
    /\ frame = NoFrame
-----------------------------------------------------------------------------
(* The calls of the application's threads.                                 *)

\* The bounds: how many actions a caller has queued, how many failed
\* connects the server count has absorbed.
Queued(c) == Cardinality({j \in 1..Len(eventBuffer) : eventBuffer[j].by = c})
MayQueue(c) == Queued(c) < PerCaller
MayConnect == "server" \in Sides /\ connectedCount["server"] >= -MaxDrift

\* What SendPacketToUser/Server, CloseUser/ServerConnection and Connect ask
\* for: a Send is refused when the connection array has nothing at the
\* index, which is looked up without the mutex.
Asks(op, s) ==
    \/ op = "Send" /\ s \in Slot /\ s[1] \in Sides /\ connArray[s] # NoConn
    \/ op = "Close" /\ s \in Slot /\ s[1] \in Sides
    \/ op = "Connect" /\ s = NoSlot /\ MayConnect

Asked(c, op, s) == Action(op, s, c, IF op = "Send" THEN connArray[s] ELSE NoConn)

BeginCall(t, op, s) ==
    /\ call[t].pc = "idle"
    /\ MayQueue(t)
    /\ Asks(op, s)
    /\ call' = [call EXCEPT ![t] = [pc |-> "lock", act |-> Asked(t, op, s)]]
    /\ UNCHANGED <<connVars, eventBuffer, sendMutex, pipe, workerPc, frame>>

\* The action is written under the mutex, which Send and Connect release at
\* once and which Close (SServerAutoLocker) keeps until it has called awake.
WriteAction(t) ==
    /\ call[t].pc = "lock"
    /\ sendMutex = Nobody
    /\ eventBuffer' = Append(eventBuffer, call[t].act)
    /\ sendMutex' = IF call[t].act.op = "Close" THEN t ELSE Nobody
    /\ call' = [call EXCEPT ![t].pc = "awake"]
    /\ UNCHANGED <<connVars, pipe, workerPc, frame>>

\* Fault: a Close that does not wake the worker.
AwakeUnlessClose(t) ==
    /\ call[t].pc = "awake"
    /\ pipe' = (pipe \/ call[t].act.op # "Close")
    /\ sendMutex' = IF sendMutex = t THEN Nobody ELSE sendMutex
    /\ call' = [call EXCEPT ![t] = [pc |-> "idle", act |-> NoAction]]
    /\ UNCHANGED <<connVars, eventBuffer, workerPc, frame>>

\* awake: a byte more in a full socket pair changes nothing.
Awake(t) ==
    /\ call[t].pc = "awake"
    /\ pipe' = TRUE
    /\ sendMutex' = IF sendMutex = t THEN Nobody ELSE sendMutex
    /\ call' = [call EXCEPT ![t] = [pc |-> "idle", act |-> NoAction]]
    /\ UNCHANGED <<connVars, eventBuffer, workerPc, frame>>
-----------------------------------------------------------------------------
(* What happens to connections, wherever the worker does it.               *)

\* Fault: the function for servers is a copy of the one for users that still
\* names the members of the user side.
DeleteAsUser(p) ==
    /\ connArray' = [connArray EXCEPT ![SlotOf(p)] = NoConn]
    /\ indexMgr' = [indexMgr EXCEPT !["user"] = PushIndex(@, MaxConnUser, conn[p].uConnIndex)]
    /\ conn' = [conn EXCEPT ![p] = Deleted]
    /\ connectedCount' = [connectedCount EXCEPT !["user"] = @ - 1]

\* The end of onUserConnectionClosed and onServerConnectionClosed.
DeleteConn(p) ==
    LET k == conn[p].kind IN
    /\ connArray' = [connArray EXCEPT ![SlotOf(p)] = NoConn]
    /\ indexMgr' = [indexMgr EXCEPT ![k] = PushIndex(@, MaxConn(k), conn[p].uConnIndex)]
    /\ conn' = [conn EXCEPT ![p] = Deleted]
    /\ connectedCount' = [connectedCount EXCEPT ![k] = @ - 1]

\* Fault: the connection is deleted without the callback.
CloseIsSilent(p) == DeleteConn(p) /\ UNCHANGED frame

\* Fault: the index is pushed back before the callback.
CloseFreesIndexFirst(p) ==
    \/ /\ conn[p].kind = "user" \/ conn[p].eConnState = "Connected"
       /\ frame' = Callback("OnDisconnected", p)
       /\ indexMgr' = [indexMgr EXCEPT ![conn[p].kind] =
                          PushIndex(@, MaxConn(conn[p].kind), conn[p].uConnIndex)]
       /\ UNCHANGED <<connArray, conn, connectedCount>>
    \/ /\ conn[p].kind = "server" /\ conn[p].eConnState # "Connected"
       /\ DeleteConn(p)
       /\ UNCHANGED frame

\* onConnectionClosed: the disconnect callback comes first, but a server
\* that never was Connected is deleted without one.
OnConnectionClosed(p) ==
    \/ /\ conn[p].kind = "user" \/ conn[p].eConnState = "Connected"
       /\ frame' = Callback("OnDisconnected", p)
       /\ UNCHANGED connVars
    \/ /\ conn[p].kind = "server" /\ conn[p].eConnState # "Connected"
       /\ DeleteConn(p)
       /\ UNCHANGED frame

\* Fault: the index is looked at but not taken.
NewConnPeeks(k, p, st) ==
    LET i == PopIndex(indexMgr[k]) IN
    /\ i # InvalidIndex
    /\ ~IsLive(p)
    /\ conn' = [conn EXCEPT ![p] = Conn(k, i, st)]
    /\ connArray' = [connArray EXCEPT ![<<k, i>>] = p]
    /\ UNCHANGED indexMgr

\* A new SServerConn at a free address gets the first free index.
NewConn(k, p, st) ==
    LET i == PopIndex(indexMgr[k]) IN
    /\ i # InvalidIndex
    /\ ~IsLive(p)
    /\ conn' = [conn EXCEPT ![p] = Conn(k, i, st)]
    /\ connArray' = [connArray EXCEPT ![<<k, i>>] = p]
    /\ indexMgr' = [indexMgr EXCEPT ![k] = PopRest(@)]

\* No index, or one but no bufferevent: then the index is not pushed back.
NoNewConn(k) ==
    /\ indexMgr' = [indexMgr EXCEPT ![k] = PopRest(@)]
    /\ UNCHANGED <<connArray, conn, connectedCount>>

\* processConnectAction until it waits for the result, or until it calls
\* fnFailed: with index 0 for want of an index, or with the index that is
\* lost because libevent refuses (the frame does not tell these two apart).
ConnectStarts(p) == NewConn("server", p, "Connecting") /\ UNCHANGED connectedCount
ConnectRefused == NoNewConn("server")
-----------------------------------------------------------------------------
(* The worker in __onThreadRead and processConnEvent.                      *)

\* evbuffer_drain, before the queue is looked at.
WakeRead ==
    /\ AtLoop /\ pipe
    /\ pipe' = FALSE
    /\ workerPc' = "drained"
    /\ UNCHANGED <<connVars, eventBuffer, sendMutex, call, frame>>

\* Fault: the pass does not lock.
PassWithoutLock ==
    /\ workerPc = "drained" /\ sendMutex = Nobody
    /\ workerPc' = "process"
    /\ UNCHANGED <<connVars, eventBuffer, sendMutex, pipe, call, frame>>

\* processConnEvent begins: it locks for the whole pass.
LockQueue ==
    /\ workerPc = "drained" /\ sendMutex = Nobody
    /\ sendMutex' = Worker
    /\ workerPc' = "process"
    /\ UNCHANGED <<connVars, eventBuffer, pipe, call, frame>>

\* Fault: an action is read without being consumed.
TakePeeks(op) ==
    /\ workerPc = "process" /\ ~InCallback
    /\ eventBuffer # <<>> /\ Head(eventBuffer).op = op
    /\ UNCHANGED <<eventBuffer, sendMutex, pipe, call, workerPc>>

\* The worker takes the next action off the queue.
Take(op) ==
    /\ workerPc = "process" /\ ~InCallback
    /\ eventBuffer # <<>> /\ Head(eventBuffer).op = op
    /\ eventBuffer' = Tail(eventBuffer)
    /\ UNCHANGED <<sendMutex, pipe, call, workerPc>>

\* A packet goes to libevent if the index has a connection that is
\* Connected, and nowhere otherwise: nothing of this state changes.
ProcessSend == Take("Send") /\ UNCHANGED <<connVars, frame>>

ProcessClose ==
    LET p == connArray[Head(eventBuffer).slot] IN
    /\ Take("Close")
    /\ \/ p # NoConn /\ OnConnectionClosed(p)
       \/ p = NoConn /\ UNCHANGED <<connVars, frame>>

ProcessConnect ==
    /\ Take("Connect")
    /\ \/ ConnectRefused /\ frame' = Callback("OnConnectFailed", NoConn)
       \/ \E p \in ConnPtr : ConnectStarts(p) /\ UNCHANGED frame

\* Fault: "if" for "while": the pass ends with actions in the queue, although
\* one drain has swallowed all their bytes.
ReleaseEarly ==
    /\ workerPc = "process" /\ ~InCallback
    /\ sendMutex' = Nobody
    /\ workerPc' = "loop"
    /\ UNCHANGED <<connVars, eventBuffer, pipe, call, frame>>

\* Fault: an exit from the pass that does not unlock.
ReleaseKeepsMutex ==
    /\ workerPc = "process" /\ ~InCallback /\ eventBuffer = <<>>
    /\ workerPc' = "loop"
    /\ UNCHANGED <<connVars, eventBuffer, sendMutex, pipe, call, frame>>

\* The queue is empty: the pass ends.
ReleaseQueue ==
    /\ workerPc = "process" /\ ~InCallback /\ eventBuffer = <<>>
    /\ sendMutex' = Nobody
    /\ workerPc' = "loop"
    /\ UNCHANGED <<connVars, eventBuffer, pipe, call, frame>>

ProcessConnEvent == ProcessSend \/ ProcessClose \/ ProcessConnect \/ ReleaseQueue
-----------------------------------------------------------------------------
(* The events libevent reports, in the worker's loop.                      *)

\* __onAcceptConn.
AcceptConn(p) ==
    /\ AtLoop /\ "user" \in Sides
    /\ NewConn("user", p, "Connected")
    /\ connectedCount' = [connectedCount EXCEPT !["user"] = @ + 1]
    /\ frame' = Callback("OnAccept", p)
    /\ UNCHANGED <<queueVars, workerPc>>

\* The socket is closed again: no index, or no bufferevent for it.
AcceptFails ==
    /\ AtLoop /\ "user" \in Sides
    /\ NoNewConn("user")
    /\ UNCHANGED <<queueVars, workerPc, frame>>

\* Fault: the callbacks come before the change of state.
ConnectedCallsFirst(p) ==
    /\ AtLoop
    /\ conn[p].kind = "server" /\ conn[p].eConnState = "Connecting"
    /\ frame' = Callback("OnAccept", p)
    /\ UNCHANGED <<connVars, queueVars, workerPc>>

\* __onConnEvent with BEV_EVENT_CONNECTED.
ConnectedEvent(p) ==
    /\ AtLoop
    /\ conn[p].kind = "server" /\ conn[p].eConnState = "Connecting"
    /\ conn' = [conn EXCEPT ![p].eConnState = "Connected"]
    /\ frame' = Callback("OnAccept", p)
    /\ UNCHANGED <<indexMgr, connArray, connectedCount, queueVars, workerPc>>

\* Fault: the failure is recorded before fnFailed is called.
ErrorStateFirst(p) ==
    /\ AtLoop /\ IsLive(p)
    /\ IF conn[p].kind = "server" /\ conn[p].eConnState = "Connecting"
       THEN /\ conn' = [conn EXCEPT ![p].eConnState = "ConnectFailed"]
            /\ frame' = Callback("OnConnectFailed", p)
            /\ UNCHANGED <<indexMgr, connArray, connectedCount>>
       ELSE OnConnectionClosed(p)
    /\ UNCHANGED <<queueVars, workerPc>>

\* __onConnEvent with the end of the stream, an error or a timeout.
ErrorEvent(p) ==
    /\ AtLoop /\ IsLive(p)
    /\ IF conn[p].kind = "server" /\ conn[p].eConnState = "Connecting"
       THEN frame' = Callback("OnConnectFailed", p) /\ UNCHANGED connVars
       ELSE OnConnectionClosed(p)
    /\ UNCHANGED <<queueVars, workerPc>>

\* __onConnRead with a full packet, and with a head it does not accept.  A
\* connecting socket is read too: EV_READ is enabled before the result.
RecvPacket(p) ==
    /\ AtLoop /\ IsLive(p)
    /\ frame' = Callback("OnRecv", p)
    /\ UNCHANGED <<connVars, queueVars, workerPc>>

BadPacket(p) ==
    /\ AtLoop /\ IsLive(p)
    /\ OnConnectionClosed(p)
    /\ UNCHANGED <<queueVars, workerPc>>
-----------------------------------------------------------------------------
(* The application in a callback.                                          *)

MayCall(op) == InCallback /\ op \in CallbackCalls /\ frame.calls < PerCallback
OneCallMore == [frame EXCEPT !.calls = @ + 1]

\* The calls that queue: the mutex is recursive, and the worker may already
\* hold it; nothing can see the state between the write and awake.
CallbackQueues(op, s) ==
    /\ MayCall(op) /\ MayQueue(Worker)
    /\ Asks(op, s)
    /\ sendMutex \in {Nobody, Worker}
    /\ eventBuffer' = Append(eventBuffer, Asked(Worker, op, s))
    /\ pipe' = TRUE
    /\ frame' = OneCallMore
    /\ UNCHANGED <<connVars, sendMutex, call, workerPc>>

\* SyncConnect; its failure callback opens inside the callback it is called in.
CallbackConnects ==
    /\ MayCall("SyncConnect") /\ MayConnect
    /\ \/ \E p \in ConnPtr : ConnectStarts(p) /\ frame' = OneCallMore
       \/ ConnectRefused /\ frame' = [OneCallMore EXCEPT !.depth = @ + 1]
    /\ UNCHANGED <<queueVars, workerPc>>

\* A failure callback of SyncConnect returns.
NestedReturns ==
    /\ InCallback /\ frame.depth > 0
    /\ frame' = [frame EXCEPT !.depth = @ - 1]
    /\ UNCHANGED <<connVars, queueVars, workerPc>>

Returning(cb) == frame.cb = cb /\ frame.depth = 0

\* The accept callback of a server is followed by fnSuccess, and only then
\* is the server counted.
AcceptReturns ==
    /\ Returning("OnAccept")
    /\ frame' = IF conn[frame.conn].kind = "server"
                THEN Callback("OnConnectSuccess", frame.conn)
                ELSE NoFrame
    /\ UNCHANGED <<connVars, queueVars, workerPc>>

SuccessReturns ==
    /\ Returning("OnConnectSuccess")
    /\ connectedCount' = [connectedCount EXCEPT !["server"] = @ + 1]
    /\ frame' = NoFrame
    /\ UNCHANGED <<indexMgr, connArray, conn, queueVars, workerPc>>

\* The disconnect callback, or fnFailed after an error event: the
\* connection is deleted.
ClosingReturns ==
    /\ \/ Returning("OnDisconnected")
       \/ Returning("OnConnectFailed") /\ frame.conn # NoConn
    /\ DeleteConn(frame.conn)
    /\ frame' = NoFrame
    /\ UNCHANGED <<queueVars, workerPc>>

\* Nothing follows a packet, nor the fnFailed of a Connect that was refused.
LastReturns ==
    /\ \/ Returning("OnRecv")
       \/ Returning("OnConnectFailed") /\ frame.conn = NoConn
    /\ frame' = NoFrame
    /\ UNCHANGED <<connVars, queueVars, workerPc>>

CallbackReturns ==
    NestedReturns \/ AcceptReturns \/ SuccessReturns \/ ClosingReturns \/ LastReturns
-----------------------------------------------------------------------------
ThreadNext(t) ==
    \/ \E op \in ThreadCalls, s \in Slot \cup {NoSlot} : BeginCall(t, op, s)
    \/ WriteAction(t)
    \/ Awake(t)

ConnEvent(p) ==
    \/ AcceptConn(p)
    \/ ConnectedEvent(p)
    \/ ErrorEvent(p)
    \/ RecvPacket(p)
    \/ BadPacket(p)

WorkerNext ==
    \/ WakeRead \/ LockQueue \/ ProcessConnEvent
    \/ AcceptFails \/ \E p \in ConnPtr : ConnEvent(p)
    \/ \E op \in CallbackCalls, s \in Slot \cup {NoSlot} : CallbackQueues(op, s)
    \/ CallbackConnects
    \/ CallbackReturns

Next == WorkerNext \/ \E t \in Threads : ThreadNext(t)

Spec == Init /\ [][Next]_vars

\* The worker and the threads keep running and callbacks return; libevent
\* gets round to the socket pair however many other events there are, and
\* whoever waits for the critical section is not passed over for ever.
Fairness ==
    /\ SF_vars(WakeRead) /\ SF_vars(LockQueue)
    /\ WF_vars(ProcessConnEvent) /\ WF_vars(CallbackReturns)
    /\ \A t \in Threads : SF_vars(WriteAction(t)) /\ WF_vars(Awake(t))

FairSpec == Spec /\ Fairness
-----------------------------------------------------------------------------
ConnType ==
    {c \in [kind : Kind, uConnIndex : Nat,
           eConnState : {"deleted", "Connecting", "Connected"}] :
        c.eConnState = "Connecting" => c.kind = "server"}

ActionType ==
    {a \in [op : {"none", "Send", "Close", "Connect"}, slot : Slot \cup {NoSlot},
           by : Caller, aim : ConnPtr \cup {NoConn}] :
        a.op \in {"Send", "Close"} => a.slot \in Slot}

FrameType == [cb : {"none", "OnAccept", "OnConnectSuccess", "OnConnectFailed",
                    "OnRecv", "OnDisconnected"},
              conn : ConnPtr \cup {NoConn}, calls : Nat, depth : Nat]

TypeOK ==
    /\ indexMgr \in [Kind -> Seq(Nat)]
    /\ connArray \in [Slot -> ConnPtr \cup {NoConn}]
    /\ conn \in [ConnPtr -> ConnType]
    /\ connectedCount \in [Kind -> Int]
    /\ eventBuffer \in Seq(ActionType)
    /\ sendMutex \in Caller \cup {Nobody}
    /\ pipe \in BOOLEAN
    /\ call \in [Threads -> [pc : {"idle", "lock", "awake"}, act : ActionType]]
    /\ workerPc \in {"loop", "drained", "process"}
    /\ frame \in FrameType

\* A connection and the array agree on its index for as long as it exists,
\* and that index is not free; a free index is free once.  So no two
\* connections ever share an index: processConnectAction, __onAcceptConn and
\* the two on...Closed keep the pool, the array and the objects in step.
IndexOwned ==
    /\ \A s \in Slot : connArray[s] # NoConn =>
          /\ IsLive(connArray[s])
          /\ SlotOf(connArray[s]) = s
    /\ \A p \in ConnPtr : IsLive(p) =>
          /\ SlotOf(p) \in Slot
          /\ connArray[SlotOf(p)] = p
          /\ conn[p].uConnIndex \notin Listed(indexMgr[conn[p].kind])
    /\ \A k \in Kind : IsPool(indexMgr[k], MaxConn(k))

\* While an action is queued, somebody will still look at the queue: a byte
\* is in the socket pair, or the worker has drained it and not yet emptied
\* the queue, or the thread that queued an action has yet to call awake
\* (Connect, SendPacketTo... and Close...Connection against __onThreadRead).
NoLostWakeup ==
    eventBuffer # <<>> =>
        \/ pipe
        \/ workerPc # "loop"
        \/ \E t \in Threads : call[t].pc = "awake"

\* m_xSendMutex: the worker owns it exactly while it empties the queue, in
\* the callbacks of that pass too, and a thread only in a Close that has
\* written its action and not yet returned.
MutexOwned ==
    /\ sendMutex = Worker <=> workerPc = "process"
    /\ \A t \in Threads :
          sendMutex = t <=> call[t].pc = "awake" /\ call[t].act.op = "Close"

\* Whatever the application calls in a callback, the SServerConn that the
\* callback is about is still there, in its slot and in the same state, when
\* the callback returns to the code that goes on using it.
CallbackConnLive ==
    /\ frame.conn = NoConn => frame.cb \in {"none", "OnConnectFailed"}
    /\ frame.conn # NoConn =>
        /\ InCallback
        /\ IsLive(frame.conn)
        /\ connArray[SlotOf(frame.conn)] = frame.conn
        /\ frame.cb \in {"OnAccept", "OnConnectSuccess", "OnDisconnected"} =>
              conn[frame.conn].eConnState = "Connected"
        /\ frame.cb = "OnConnectSuccess" => conn[frame.conn].kind = "server"
        /\ frame.cb = "OnConnectFailed" => conn[frame.conn].eConnState = "Connecting"

\* m_nConnectedUserCount is the number of user connections there are, along
\* every path that accepts or closes one.
UserCountExact ==
    connectedCount["user"] = Cardinality({p \in ConnPtr : IsLive(p) /\ conn[p].kind = "user"})

\* What the application has been told of each index, read off the engine's
\* state: a session is open from the accept callback to the disconnect one.
Session(s) ==
    LET p == connArray[s] IN
    IF /\ p # NoConn
       /\ conn[p].eConnState = "Connected"
       /\ ~(frame.cb = "OnDisconnected" /\ frame.conn = p)
    THEN "open" ELSE "closed"

App == INSTANCE AppSessions WITH
    session <- [s \in Slot |-> Session(s)],
    callback <- [what |-> frame.cb,
                 slot |-> IF frame.conn = NoConn THEN NoSlot ELSE SlotOf(frame.conn)]

\* The engine keeps the application's contract: on every index, accept and
\* disconnect callbacks alternate, packets of a user and results of Connect
\* come only where the session allows, and callbacks never overlap.
AppSpec == App!AppSpec

\* The worker is back at its sockets again and again: a pass over the queue
\* ends, although its callbacks may queue more, unless the application
\* answers the failure of a Connect that is refused at once with a Connect,
\* for ever.
Stuck == <>[](workerPc = "process")

PassEnds == Stuck => []<>(frame.cb = "OnConnectFailed" /\ frame.conn = NoConn)

\* A session that the application asks to close ends: no interleaving of
\* CloseUserConnection or CloseServerConnection with the worker leaves the
\* action unseen in the queue, whoever queued it.
CloseTakesEffect ==
    Stuck \/ \A s \in Slot :
        (\E j \in 1..Len(eventBuffer) : /\ eventBuffer[j].op = "Close"
                                        /\ eventBuffer[j].slot = s)
        ~> Session(s) = "closed"

\* A thread that calls the engine gets out again, although Close waits for
\* the mutex that the worker keeps through a whole pass and its callbacks.
CallsReturn == Stuck \/ \A t \in Threads : call[t].pc # "idle" ~> call[t].pc = "idle"

\* "connected count" (SServerEngine.h:225): the count that
\* GetConnectedServerCount returns is a number of connections.
ServerCountIsCount == connectedCount["server"] \in 0..MaxConnServer

\* "2 possibilities, 1 : connect failed and remove conn 2 : connected and
\* remove conn" (SServerEngine.cpp, onServerConnectionClosed): a server
\* connection is deleted only after fnFailed or after a disconnect callback.
TwoPossibilities ==
    [][\A p \in ConnPtr : IsLive(p) /\ ~IsLive(p)' =>
          frame.conn = p /\ frame.cb \in {"OnConnectFailed", "OnDisconnected"}]_vars

\* "thread-safe" (SServerEngine.h:133, on SendPacketToUser): the packet goes
\* to the connection that the call looked up, or to none.
SendReachesAim ==
    (/\ workerPc = "process" /\ ~InCallback
     /\ eventBuffer # <<>> /\ Head(eventBuffer).op = "Send")
    => connArray[Head(eventBuffer).slot] \in {NoConn, Head(eventBuffer).aim}
=============================================================================
