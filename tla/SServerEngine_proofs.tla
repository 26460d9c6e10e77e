-------------------------- MODULE SServerEngine_proofs --------------------------
(***************************************************************************)
(* Proofs about the running engine, for any number of connections, of      *)
(* threads and of queued actions: its invariants, that it implements       *)
(* AppSessions, and that it counts its users.                              *)
(***************************************************************************)
EXTENDS SServerEngine, Lists_proofs

-----------------------------------------------------------------------------
(* Types.                                                                  *)

\* A slot is an index below the limit of its side.
LEMMA SlotFacts ==
  /\ \A k \in Kind : \A i \in 1..MaxConn(k) : <<k, i>> \in Slot
  /\ \A s \in Slot : s[1] \in Kind /\ s[2] \in 1..MaxConn(s[1]) /\ s = <<s[1], s[2]>>
  /\ NoSlot \notin Slot
  /\ \A k \in Kind : MaxConn(k) \in Nat
BY ConstantsAssumption DEF Slot, Kind, MaxConn, NoSlot, InvalidIndex

\* The object of a deleted connection, and of a new one, has the type.
LEMMA ConnFacts ==
  /\ Deleted \in ConnType
  /\ \A k \in Kind, i \in Nat, st \in {"Connecting", "Connected"} :
        (st = "Connecting" => k = "server") => Conn(k, i, st) \in ConnType
BY DEF Deleted, Conn, ConnType, Kind, InvalidIndex

\* A callback that begins has the type of one.
LEMMA FrameFacts ==
  ASSUME NEW cb \in {"none", "OnAccept", "OnConnectSuccess", "OnConnectFailed",
                     "OnRecv", "OnDisconnected"},
         NEW p \in ConnPtr \cup {NoConn}
  PROVE  Callback(cb, p) \in FrameType
BY DEF Callback, FrameType

\* What a caller asks for has the type of an action.
LEMMA AskedType ==
  ASSUME NEW c \in Caller, NEW op \in {"Send", "Close", "Connect"}, NEW s, Asks(op, s),
         TypeOK
  PROVE  Asked(c, op, s) \in ActionType /\ Asked(c, op, s).op = op
<1>1. op = "Send" => s \in Slot /\ connArray[s] \in ConnPtr \cup {NoConn}
  BY DEF Asks, TypeOK
<1>2. s \in Slot \cup {NoSlot} /\ (op \in {"Send", "Close"} => s \in Slot)
  BY DEF Asks
<1>3. QED
  BY <1>1, <1>2 DEF Asked, Action, ActionType

\* The types of what DeleteConn, NewConn and NoNewConn change.
ConnTypeOK ==
    /\ indexMgr \in [Kind -> Seq(Nat)]
    /\ connArray \in [Slot -> ConnPtr \cup {NoConn}]
    /\ conn \in [ConnPtr -> ConnType]
    /\ connectedCount \in [Kind -> Int]

\* What holds of connections between any two changes of them.
ConnInv == ConnTypeOK /\ IndexOwned

\* onUserConnectionClosed and onServerConnectionClosed leave everything else
\* about connections as it was.
LEMMA DeleteConnInv ==
  ASSUME ConnInv, NEW p \in ConnPtr, IsLive(p), DeleteConn(p)
  PROVE  /\ ConnInv'
         /\ \A r \in ConnPtr \ {p} : conn'[r] = conn[r]
         /\ conn'[p] = Deleted
<1> DEFINE k == conn[p].kind
           i == conn[p].uConnIndex
           q == PushIndex(indexMgr[k], MaxConn(k), i)
<1>1. /\ k \in Kind /\ i \in Nat /\ SlotOf(p) = <<k, i>> /\ SlotOf(p) \in Slot
      /\ connArray[SlotOf(p)] = p
  BY DEF ConnInv, ConnTypeOK, ConnType, IndexOwned, SlotOf
<1>2. /\ indexMgr' = [indexMgr EXCEPT ![k] = q]
      /\ connArray' = [connArray EXCEPT ![<<k, i>>] = NoConn]
      /\ conn' = [conn EXCEPT ![p] = Deleted]
      /\ connectedCount' = [connectedCount EXCEPT ![k] = @ - 1]
  BY <1>1 DEF DeleteConn
<1>3. MaxConn(k) \in Nat /\ indexMgr[k] \in Seq(Nat) /\ IsPool(indexMgr[k], MaxConn(k))
  BY <1>1, SlotFacts DEF ConnInv, ConnTypeOK, IndexOwned
<1> HIDE DEF k, i
<1>4. q \in Seq(Nat) /\ IsPool(q, MaxConn(k)) /\ Listed(q) \subseteq Listed(indexMgr[k]) \cup {i}
  BY <1>1, <1>3, PushPool
<1> HIDE DEF q
<1>5. ConnTypeOK'
  BY <1>1, <1>2, <1>4, ConnFacts DEF ConnInv, ConnTypeOK
<1>6. /\ \A r \in ConnPtr \ {p} : conn'[r] = conn[r]
      /\ conn'[p] = Deleted
  BY <1>2 DEF ConnInv, ConnTypeOK
<1>7. \A s \in Slot : connArray'[s] = IF s = <<k, i>> THEN NoConn ELSE connArray[s]
  BY <1>2 DEF ConnInv, ConnTypeOK
<1>8. \A k2 \in Kind : indexMgr'[k2] = IF k2 = k THEN q ELSE indexMgr[k2]
  BY <1>2 DEF ConnInv, ConnTypeOK
<1>9. ASSUME NEW s \in Slot, connArray'[s] # NoConn
      PROVE  (IsLive(connArray[s]) /\ SlotOf(connArray[s]) = s)'
  <2>1. /\ s # <<k, i>> /\ connArray'[s] = connArray[s]
        /\ IsLive(connArray[s]) /\ SlotOf(connArray[s]) = s
    BY <1>7, <1>9 DEF ConnInv, IndexOwned
  <2>2. connArray[s] \in ConnPtr \ {p}
    BY <1>1, <1>9, <2>1 DEF ConnInv, ConnTypeOK
  <2>3. conn'[connArray'[s]] = conn[connArray[s]]
    BY <1>6, <2>1, <2>2
  <2>4. QED
    BY <2>1, <2>3 DEF IsLive, SlotOf
<1>10. ASSUME NEW r \in ConnPtr, IsLive(r)'
       PROVE  (/\ SlotOf(r) \in Slot
               /\ connArray[SlotOf(r)] = r
               /\ conn[r].uConnIndex \notin Listed(indexMgr[conn[r].kind]))'
  <2>1. r # p /\ conn'[r] = conn[r]
    BY <1>6, <1>10 DEF IsLive, Deleted, Conn
  <2>2. /\ IsLive(r) /\ SlotOf(r)' = SlotOf(r) /\ SlotOf(r) \in Slot
        /\ connArray[SlotOf(r)] = r
        /\ conn[r].uConnIndex \notin Listed(indexMgr[conn[r].kind])
    BY <1>10, <2>1 DEF IsLive, SlotOf, ConnInv, IndexOwned
  <2>3. SlotOf(r) # <<k, i>>
    BY <1>1, <2>1, <2>2
  <2>4. connArray'[SlotOf(r)] = r
    BY <1>7, <2>2, <2>3
  <2>5. conn[r].kind \in Kind
    BY DEF ConnInv, ConnTypeOK, ConnType
  <2>6. conn[r].kind = k => conn[r].uConnIndex # i
    BY <2>3 DEF SlotOf
  <2>7. conn[r].uConnIndex \notin Listed(indexMgr'[conn[r].kind])
    BY <1>4, <1>8, <2>2, <2>5, <2>6
  <2>8. QED
    BY <2>1, <2>2, <2>4, <2>7
<1>11. \A k2 \in Kind : IsPool(indexMgr'[k2], MaxConn(k2))
  BY <1>4, <1>8 DEF ConnInv, IndexOwned
<1>12. IndexOwned'
  BY <1>9, <1>10, <1>11 DEF IndexOwned
<1>13. QED
  BY <1>5, <1>6, <1>12 DEF ConnInv

\* __onAcceptConn and processConnectAction give a new connection an index
\* that no connection has.
LEMMA NewConnInv ==
  ASSUME ConnInv, NEW k \in Kind, NEW p \in ConnPtr, NEW st \in {"Connecting", "Connected"},
         st = "Connecting" => k = "server",
         NewConn(k, p, st), connectedCount' \in [Kind -> Int]
  PROVE  /\ ConnInv'
         /\ ~IsLive(p)
         /\ \A r \in ConnPtr \ {p} : conn'[r] = conn[r]
         /\ \E i \in Nat : conn'[p] = Conn(k, i, st)
<1> DEFINE i == PopIndex(indexMgr[k])
           q == PopRest(indexMgr[k])
<1>1. /\ i # InvalidIndex /\ ~IsLive(p)
      /\ conn' = [conn EXCEPT ![p] = Conn(k, i, st)]
      /\ connArray' = [connArray EXCEPT ![<<k, i>>] = p]
      /\ indexMgr' = [indexMgr EXCEPT ![k] = q]
  BY DEF NewConn, ConnInv, ConnTypeOK
<1>2. MaxConn(k) \in Nat /\ indexMgr[k] \in Seq(Nat) /\ IsPool(indexMgr[k], MaxConn(k))
  BY SlotFacts DEF ConnInv, ConnTypeOK, IndexOwned
<1>3. indexMgr[k] # <<>>
  BY <1>1, PopEmptyPool
<1>4. /\ q \in Seq(Nat) /\ IsPool(q, MaxConn(k))
      /\ i \in 1..MaxConn(k) /\ i \in Listed(indexMgr[k]) /\ Listed(q) = Listed(indexMgr[k]) \ {i}
  BY <1>2, <1>3, PopPool
<1> HIDE DEF i, q
<1>5. <<k, i>> \in Slot /\ i \in Nat
  BY <1>2, <1>4, SlotFacts
<1>6. Conn(k, i, st) \in ConnType
  BY <1>5, ConnFacts
<1>7. ConnTypeOK'
  BY <1>1, <1>4, <1>6 DEF ConnInv, ConnTypeOK
<1>8. /\ \A r \in ConnPtr \ {p} : conn'[r] = conn[r]
      /\ conn'[p] = Conn(k, i, st)
  BY <1>1 DEF ConnInv, ConnTypeOK
<1>9. \A s \in Slot : connArray'[s] = IF s = <<k, i>> THEN p ELSE connArray[s]
  BY <1>1 DEF ConnInv, ConnTypeOK
<1>10. \A k2 \in Kind : indexMgr'[k2] = IF k2 = k THEN q ELSE indexMgr[k2]
  BY <1>1 DEF ConnInv, ConnTypeOK
<1>11. ASSUME NEW s \in Slot, connArray'[s] # NoConn
       PROVE  (IsLive(connArray[s]) /\ SlotOf(connArray[s]) = s)'
  <2>1. CASE s = <<k, i>>
    BY <1>8, <1>9, <2>1 DEF IsLive, SlotOf, Conn
  <2>2. CASE s # <<k, i>>
    <3>1. /\ connArray'[s] = connArray[s]
          /\ IsLive(connArray[s]) /\ SlotOf(connArray[s]) = s
      BY <1>9, <1>11, <2>2 DEF ConnInv, IndexOwned
    <3>2. connArray[s] \in ConnPtr \ {p}
      BY <1>1, <1>11, <3>1 DEF ConnInv, ConnTypeOK
    <3>3. conn'[connArray'[s]] = conn[connArray[s]]
      BY <1>8, <3>1, <3>2
    <3>4. QED
      BY <3>1, <3>3 DEF IsLive, SlotOf
  <2>3. QED
    BY <2>1, <2>2
<1>12. ASSUME NEW r \in ConnPtr, IsLive(r)'
       PROVE  (/\ SlotOf(r) \in Slot
               /\ connArray[SlotOf(r)] = r
               /\ conn[r].uConnIndex \notin Listed(indexMgr[conn[r].kind]))'
  <2>1. CASE r = p
    <3>1. SlotOf(r)' = <<k, i>> /\ conn'[r].uConnIndex = i /\ conn'[r].kind = k
      BY <1>8, <2>1 DEF SlotOf, Conn
    <3>2. i \notin Listed(indexMgr'[k])
      BY <1>4, <1>10
    <3>3. QED
      BY <1>5, <1>9, <2>1, <3>1, <3>2
  <2>2. CASE r # p
    <3>1. conn'[r] = conn[r]
      BY <1>8, <2>2
    <3>2. /\ IsLive(r) /\ SlotOf(r)' = SlotOf(r) /\ SlotOf(r) \in Slot
          /\ connArray[SlotOf(r)] = r
          /\ conn[r].uConnIndex \notin Listed(indexMgr[conn[r].kind])
          /\ conn[r].kind \in Kind
      BY <1>12, <3>1 DEF IsLive, SlotOf, ConnInv, IndexOwned, ConnTypeOK, ConnType
    <3>3. SlotOf(r) # <<k, i>>
      BY <1>4, <3>2 DEF SlotOf
    <3>4. connArray'[SlotOf(r)] = r
      BY <1>9, <3>2, <3>3
    <3>5. conn[r].uConnIndex \notin Listed(indexMgr'[conn[r].kind])
      BY <1>4, <1>10, <3>2
    <3>6. QED
      BY <3>1, <3>2, <3>4, <3>5
  <2>3. QED
    BY <2>1, <2>2
<1>13. \A k2 \in Kind : IsPool(indexMgr'[k2], MaxConn(k2))
  BY <1>4, <1>10 DEF ConnInv, IndexOwned
<1>14. IndexOwned'
  BY <1>11, <1>12, <1>13 DEF IndexOwned
<1>15. QED
  BY <1>1, <1>5, <1>7, <1>8, <1>14 DEF ConnInv

\* An index that is popped and leaked does no harm to those in use.
LEMMA NoNewConnInv ==
  ASSUME ConnInv, NEW k \in Kind, NoNewConn(k)
  PROVE  ConnInv' /\ conn' = conn
<1> DEFINE q == PopRest(indexMgr[k])
<1>1. /\ indexMgr' = [indexMgr EXCEPT ![k] = q]
      /\ UNCHANGED <<connArray, conn, connectedCount>>
  BY DEF NoNewConn, ConnInv, ConnTypeOK
<1>2. MaxConn(k) \in Nat /\ indexMgr[k] \in Seq(Nat) /\ IsPool(indexMgr[k], MaxConn(k))
  BY SlotFacts DEF ConnInv, ConnTypeOK, IndexOwned
<1>3. q \in Seq(Nat) /\ IsPool(q, MaxConn(k)) /\ Listed(q) \subseteq Listed(indexMgr[k])
  <2>1. CASE indexMgr[k] = <<>>
    BY <1>2, <2>1, PopEmptyPool
  <2>2. CASE indexMgr[k] # <<>>
    BY <1>2, <2>2, PopPool
  <2>3. QED
    BY <2>1, <2>2
<1> HIDE DEF q
<1>4. \A k2 \in Kind : indexMgr'[k2] = IF k2 = k THEN q ELSE indexMgr[k2]
  BY <1>1 DEF ConnInv, ConnTypeOK
<1>5. ConnTypeOK'
  BY <1>1, <1>3 DEF ConnInv, ConnTypeOK
<1>6. IndexOwned'
  <2>1. \A k2 \in Kind : /\ IsPool(indexMgr'[k2], MaxConn(k2))
                         /\ Listed(indexMgr'[k2]) \subseteq Listed(indexMgr[k2])
    BY <1>3, <1>4 DEF ConnInv, IndexOwned
  <2>2. \A r \in ConnPtr : conn[r].kind \in Kind
    BY DEF ConnInv, ConnTypeOK, ConnType
  <2>3. QED
    BY <1>1, <2>1, <2>2 DEF ConnInv, IndexOwned, IsLive, SlotOf
<1>7. QED
  BY <1>1, <1>5, <1>6 DEF ConnInv

\* The result of a connect changes nothing but the state of the connection.
LEMMA ConnectedInv ==
  ASSUME ConnInv, NEW p \in ConnPtr, IsLive(p),
         conn' = [conn EXCEPT ![p].eConnState = "Connected"],
         UNCHANGED <<indexMgr, connArray, connectedCount>>
  PROVE  ConnInv'
<1>1. conn' \in [ConnPtr -> ConnType]
  BY DEF ConnInv, ConnTypeOK, ConnType
<1>2. \A r \in ConnPtr : /\ conn'[r].kind = conn[r].kind
                         /\ conn'[r].uConnIndex = conn[r].uConnIndex
                         /\ IsLive(r)' <=> IsLive(r)
  BY DEF ConnInv, ConnTypeOK, ConnType, IsLive
<1>3. \A s \in Slot : connArray[s] # NoConn => connArray[s] \in ConnPtr
  BY DEF ConnInv, ConnTypeOK
<1>4. \A r \in ConnPtr : SlotOf(r)' = SlotOf(r)
  BY <1>2 DEF SlotOf
<1>5. IndexOwned'
  <2>1. \A s \in Slot : connArray'[s] # NoConn => (IsLive(connArray[s]) /\ SlotOf(connArray[s]) = s)'
    <3>1. ASSUME NEW s \in Slot, connArray'[s] # NoConn
          PROVE  (IsLive(connArray[s]) /\ SlotOf(connArray[s]) = s)'
      <4> DEFINE r == connArray[s]
      <4>1. r \in ConnPtr /\ IsLive(r) /\ SlotOf(r) = s /\ connArray' = connArray
        BY <1>3, <3>1 DEF ConnInv, IndexOwned
      <4>2. conn'[r].eConnState # "deleted" /\ conn'[r].kind = conn[r].kind
            /\ conn'[r].uConnIndex = conn[r].uConnIndex
        BY <1>2, <4>1 DEF IsLive
      <4>3. QED
        BY <4>1, <4>2 DEF IsLive, SlotOf
    <3>2. QED
      BY <3>1
  <2>2. QED
    BY <1>2, <1>4, <2>1 DEF ConnInv, IndexOwned
<1>6. QED
  BY <1>1, <1>5 DEF ConnInv, ConnTypeOK

-----------------------------------------------------------------------------
(* The inductive invariant.                                                *)

\* The invariants that the runs check are inductive together: a callback
\* finds its connection alive (CallbackConnLive) because connections and
\* slots agree (IndexOwned), and the wake-up is safe (NoLostWakeup) because a
\* pass is under way exactly while the worker owns the mutex (MutexOwned).
EngineInv == TypeOK /\ IndexOwned /\ MutexOwned /\ NoLostWakeup /\ CallbackConnLive

QueueTypeOK ==
    /\ eventBuffer \in Seq(ActionType)
    /\ sendMutex \in Caller \cup {Nobody}
    /\ pipe \in BOOLEAN
    /\ call \in [Threads -> [pc : {"idle", "lock", "awake"}, act : ActionType]]
    /\ workerPc \in {"loop", "drained", "process"}

\* The type invariant is the types of the parts.
LEMMA TypeParts == TypeOK <=> ConnTypeOK /\ QueueTypeOK /\ frame \in FrameType
BY DEF TypeOK, ConnTypeOK, QueueTypeOK

\* Steps that leave connections alone.
LEMMA ConnSame == ConnInv /\ UNCHANGED connVars => ConnInv'
BY DEF ConnInv, ConnTypeOK, IndexOwned, connVars, IsLive, SlotOf

\* Steps that leave the queue, the threads and the pass alone.
LEMMA QueueSame ==
  EngineInv /\ UNCHANGED <<queueVars, workerPc>> => (QueueTypeOK /\ MutexOwned /\ NoLostWakeup)'
BY DEF EngineInv, TypeOK, QueueTypeOK, MutexOwned, NoLostWakeup, queueVars

\* The callback that is running keeps its connection when its connection
\* does not change.
LEMMA FrameKeepsConn ==
  ASSUME EngineInv, ConnInv', frame'.cb = frame.cb, frame'.conn = frame.conn,
         frame.conn # NoConn => conn'[frame.conn] = conn[frame.conn]
  PROVE  CallbackConnLive'
<1>1. frame.conn # NoConn => frame.conn \in ConnPtr /\ IsLive(frame.conn)'
  BY DEF EngineInv, CallbackConnLive, TypeOK, FrameType, IsLive
<1>2. frame.conn # NoConn => (connArray[SlotOf(frame.conn)] = frame.conn)'
  BY <1>1 DEF ConnInv, IndexOwned, IsLive, SlotOf
<1>3. QED
  BY <1>1, <1>2 DEF EngineInv, CallbackConnLive, InCallback, IsLive

\* Outside callbacks there is no connection in the frame.
LEMMA NoFrameNoConn == EngineInv /\ ~InCallback => frame.conn = NoConn
BY DEF EngineInv, CallbackConnLive, InCallback

\* A callback that begins about a live connection.
LEMMA FrameBegins ==
  ASSUME ConnInv', NEW p \in ConnPtr,
         NEW cb \in {"OnAccept", "OnConnectSuccess", "OnConnectFailed", "OnRecv", "OnDisconnected"},
         frame' = Callback(cb, p), IsLive(p)',
         cb \in {"OnAccept", "OnConnectSuccess", "OnDisconnected"} => conn'[p].eConnState = "Connected",
         cb = "OnConnectSuccess" => conn'[p].kind = "server",
         cb = "OnConnectFailed" => conn'[p].eConnState = "Connecting"
  PROVE  CallbackConnLive' /\ frame' \in FrameType
<1>1. frame'.cb = cb /\ frame'.conn = p
  BY DEF Callback
<1>2. frame' \in FrameType
  BY FrameFacts
<1>3. connArray'[<<conn'[p].kind, conn'[p].uConnIndex>>] = p
  BY DEF ConnInv, IndexOwned, IsLive, SlotOf
<1>4. p # NoConn
  BY ConstantsAssumption
<1>5. QED
  BY <1>1, <1>2, <1>3, <1>4 DEF CallbackConnLive, InCallback, IsLive, SlotOf

\* The worker comes back from its last callback.
LEMMA FrameEnds ==
  frame' = NoFrame \/ frame' = Callback("OnConnectFailed", NoConn)
    => CallbackConnLive' /\ frame' \in FrameType
<1>1. ASSUME NEW cb \in {"none", "OnConnectFailed"}, frame' = Callback(cb, NoConn)
      PROVE  CallbackConnLive' /\ frame' \in FrameType
  <2>1. frame'.cb = cb /\ frame'.conn = NoConn
    BY <1>1 DEF Callback
  <2>2. frame' \in FrameType
    BY <1>1, FrameFacts
  <2>3. QED
    BY <2>1, <2>2 DEF CallbackConnLive
<1>2. QED
  BY <1>1 DEF NoFrame

\* onConnectionClosed, called outside callbacks.
LEMMA ClosedInv ==
  ASSUME EngineInv, ~InCallback, NEW p \in ConnPtr, IsLive(p), OnConnectionClosed(p)
  PROVE  ConnInv' /\ CallbackConnLive' /\ frame' \in FrameType
<1>0. ConnInv
  BY TypeParts DEF EngineInv, ConnInv
<1>1. CASE /\ conn[p].kind = "user" \/ conn[p].eConnState = "Connected"
           /\ frame' = Callback("OnDisconnected", p)
           /\ UNCHANGED connVars
  <2>1. ConnInv'
    BY <1>0, <1>1, ConnSame
  <2>2. conn'[p].eConnState = "Connected" /\ IsLive(p)'
    BY <1>0, <1>1 DEF ConnInv, ConnTypeOK, ConnType, IsLive, connVars
  <2>3. QED
    BY <1>1, <2>1, <2>2, FrameBegins
<1>2. CASE DeleteConn(p) /\ UNCHANGED frame
  <2>1. ConnInv'
    BY <1>0, <1>2, DeleteConnInv
  <2>2. frame.conn = NoConn
    BY NoFrameNoConn
  <2>3. QED
    BY <1>2, <2>1, <2>2, FrameKeepsConn DEF EngineInv, TypeOK
<1>3. QED
  BY <1>1, <1>2 DEF OnConnectionClosed

-----------------------------------------------------------------------------
(* The steps.                                                              *)

\* The parts that the steps are proved for.
LEMMA InvParts ==
  EngineInv <=> ConnInv /\ QueueTypeOK /\ frame \in FrameType
                /\ MutexOwned /\ NoLostWakeup /\ CallbackConnLive
BY TypeParts DEF EngineInv, ConnInv

\* What is left to show of a step that leaves the queue alone.
LEMMA EventStep ==
  EngineInv /\ UNCHANGED <<queueVars, workerPc>>
    /\ (ConnInv /\ CallbackConnLive /\ frame \in FrameType)' => EngineInv'
<1>1. EngineInv /\ UNCHANGED <<queueVars, workerPc>> => (QueueTypeOK /\ MutexOwned /\ NoLostWakeup)'
  BY QueueSame
<1>2. EngineInv' <=> (ConnInv /\ QueueTypeOK /\ frame \in FrameType
                      /\ MutexOwned /\ NoLostWakeup /\ CallbackConnLive)'
  BY DEF EngineInv, TypeOK, ConnInv, ConnTypeOK, QueueTypeOK
<1>3. QED
  BY <1>1, <1>2

\* What is left to show of a step that leaves connections and the callback
\* alone.
LEMMA QueueStep ==
  EngineInv /\ UNCHANGED <<connVars, frame>>
    /\ (QueueTypeOK /\ MutexOwned /\ NoLostWakeup)' => EngineInv'
<1> SUFFICES ASSUME EngineInv, UNCHANGED <<connVars, frame>>,
                    (QueueTypeOK /\ MutexOwned /\ NoLostWakeup)'
             PROVE  EngineInv'
  OBVIOUS
<1>1. ConnInv' /\ frame' \in FrameType
  BY InvParts, ConnSame
<1>2. CallbackConnLive'
  BY <1>1, FrameKeepsConn DEF connVars
<1>3. QED
  BY <1>1, <1>2, TypeParts DEF EngineInv, ConnInv, TypeOK, ConnTypeOK, QueueTypeOK

\* The calls of a thread.
LEMMA ThreadStep ==
  ASSUME EngineInv, NEW t \in Threads, ThreadNext(t)
  PROVE  EngineInv'
<1> USE DEF EngineInv
<1>1. /\ Worker # t /\ Nobody # t /\ Nobody # Worker
      /\ \A u \in Threads : u \in Caller /\ u # Worker /\ u # Nobody
  BY ConstantsAssumption DEF Caller
<1>2. ASSUME NEW op \in ThreadCalls, NEW s \in Slot \cup {NoSlot}, BeginCall(t, op, s)
      PROVE  EngineInv'
  <2>1. Asked(t, op, s) \in ActionType
    BY <1>1, <1>2, AskedType, ConstantsAssumption DEF BeginCall
  <2>2. QueueTypeOK'
    BY <1>2, <2>1 DEF BeginCall, TypeOK, QueueTypeOK
  <2>3. /\ call'[t].pc = "lock" /\ call[t].pc = "idle"
        /\ \A u \in Threads \ {t} : call'[u] = call[u]
    BY <1>2 DEF BeginCall, TypeOK
  <2>4. MutexOwned'
    BY <1>1, <1>2, <2>3 DEF BeginCall, MutexOwned
  <2>5. NoLostWakeup'
    BY <1>2, <2>3 DEF BeginCall, NoLostWakeup
  <2>6. QED
    BY <1>2, <2>2, <2>4, <2>5, QueueStep DEF BeginCall, connVars
<1>3. CASE WriteAction(t)
  <2>1. call[t] \in [pc : {"idle", "lock", "awake"}, act : ActionType]
    BY DEF TypeOK
  <2>2. eventBuffer' \in Seq(ActionType) /\ sendMutex' \in Caller \cup {Nobody}
    BY <1>1, <1>3, <2>1 DEF WriteAction, TypeOK
  <2>3. /\ call'[t].pc = "awake" /\ call[t].pc = "lock" /\ call'[t].act = call[t].act
        /\ \A u \in Threads \ {t} : call'[u] = call[u]
        /\ call' \in [Threads -> [pc : {"idle", "lock", "awake"}, act : ActionType]]
    BY <1>3, <2>1 DEF WriteAction, TypeOK
  <2>4. QueueTypeOK'
    BY <1>3, <2>2, <2>3 DEF WriteAction, TypeOK, QueueTypeOK
  <2>5. MutexOwned'
    BY <1>1, <1>3, <2>3 DEF WriteAction, MutexOwned
  <2>6. NoLostWakeup'
    BY <2>3 DEF NoLostWakeup
  <2>7. QED
    BY <1>3, <2>4, <2>5, <2>6, QueueStep DEF WriteAction, connVars
<1>4. CASE Awake(t)
  <2>1. NoAction \in ActionType
    BY DEF NoAction, Action, ActionType, Caller
  <2>2. /\ call'[t].pc = "idle"
        /\ \A u \in Threads \ {t} : call'[u] = call[u]
        /\ call' \in [Threads -> [pc : {"idle", "lock", "awake"}, act : ActionType]]
    BY <1>4, <2>1 DEF Awake, TypeOK
  <2>3. QueueTypeOK'
    BY <1>4, <2>2 DEF Awake, TypeOK, QueueTypeOK
  <2>4. MutexOwned'
    BY <1>1, <1>4, <2>2 DEF Awake, MutexOwned
  <2>5. NoLostWakeup'
    BY <1>4 DEF Awake, NoLostWakeup
  <2>6. QED
    BY <1>4, <2>3, <2>4, <2>5, QueueStep DEF Awake, connVars
<1>5. QED
  BY <1>2, <1>3, <1>4 DEF ThreadNext

\* __onThreadRead up to the pass, and the end of the pass.
LEMMA PassStep ==
  ASSUME EngineInv, WakeRead \/ LockQueue \/ ReleaseQueue
  PROVE  EngineInv'
<1> USE DEF EngineInv
<1>1. Worker # Nobody /\ \A u \in Threads : u # Worker /\ u # Nobody
  BY ConstantsAssumption DEF Caller
<1>2. CASE WakeRead
  <2>1. (QueueTypeOK /\ MutexOwned /\ NoLostWakeup)'
    BY <1>2 DEF WakeRead, AtLoop, TypeOK, QueueTypeOK, MutexOwned, NoLostWakeup
  <2>2. QED
    BY <1>2, <2>1, QueueStep DEF WakeRead, connVars
<1>3. CASE LockQueue
  <2>1. (QueueTypeOK /\ MutexOwned /\ NoLostWakeup)'
    BY <1>1, <1>3 DEF LockQueue, TypeOK, QueueTypeOK, MutexOwned, NoLostWakeup, Caller
  <2>2. QED
    BY <1>3, <2>1, QueueStep DEF LockQueue, connVars
<1>4. CASE ReleaseQueue
  <2>1. (QueueTypeOK /\ MutexOwned /\ NoLostWakeup)'
    BY <1>1, <1>4 DEF ReleaseQueue, TypeOK, QueueTypeOK, MutexOwned, NoLostWakeup, Caller
  <2>2. QED
    BY <1>4, <2>1, QueueStep DEF ReleaseQueue, connVars
<1>5. QED
  BY <1>2, <1>3, <1>4

\* Taking an action off the queue during a pass.
LEMMA TakeInv ==
  ASSUME EngineInv, NEW op, Take(op)
  PROVE  /\ (QueueTypeOK /\ MutexOwned /\ NoLostWakeup)'
         /\ ~InCallback /\ Head(eventBuffer) \in ActionType /\ Head(eventBuffer).op = op
<1>1. eventBuffer \in Seq(ActionType) /\ eventBuffer # <<>> /\ eventBuffer' = Tail(eventBuffer)
  BY DEF EngineInv, TypeOK, Take
<1>2. eventBuffer' \in Seq(ActionType) /\ Head(eventBuffer) \in ActionType
  BY <1>1
<1>3. QED
  BY <1>2 DEF EngineInv, TypeOK, QueueTypeOK, MutexOwned, NoLostWakeup, Take

\* The actions that a pass handles.
LEMMA ProcessStep ==
  ASSUME EngineInv, ProcessSend \/ ProcessClose \/ ProcessConnect
  PROVE  EngineInv'
<1>0. ConnInv /\ frame \in FrameType
  BY InvParts
<1>1. CASE ProcessSend
  BY <1>1, TakeInv, QueueStep DEF ProcessSend
<1>2. CASE ProcessClose
  <2> DEFINE p == connArray[Head(eventBuffer).slot]
  <2>1. /\ (QueueTypeOK /\ MutexOwned /\ NoLostWakeup)' /\ ~InCallback
        /\ Head(eventBuffer).slot \in Slot
    BY <1>2, TakeInv DEF ProcessClose, ActionType
  <2>2. CASE p # NoConn /\ OnConnectionClosed(p)
    <3>1. p \in ConnPtr /\ IsLive(p)
      BY <1>0, <2>1, <2>2 DEF ConnInv, ConnTypeOK, IndexOwned
    <3>2. ConnInv' /\ CallbackConnLive' /\ frame' \in FrameType
      BY <2>1, <2>2, <3>1, ClosedInv
    <3>3. QED
      BY <2>1, <3>2, InvParts DEF EngineInv, TypeOK, ConnInv, ConnTypeOK, QueueTypeOK
  <2>3. CASE UNCHANGED <<connVars, frame>>
    BY <2>1, <2>3, QueueStep
  <2>4. QED
    BY <1>2, <2>2, <2>3 DEF ProcessClose
<1>3. CASE ProcessConnect
  <2>1. (QueueTypeOK /\ MutexOwned /\ NoLostWakeup)' /\ ~InCallback
    BY <1>3, TakeInv DEF ProcessConnect
  <2>2. CASE ConnectRefused /\ frame' = Callback("OnConnectFailed", NoConn)
    <3>1. ConnInv'
      BY <1>0, <2>2, NoNewConnInv DEF ConnectRefused, Kind
    <3>2. CallbackConnLive' /\ frame' \in FrameType
      BY <2>2, FrameEnds
    <3>3. QED
      BY <2>1, <3>1, <3>2 DEF EngineInv, TypeOK, ConnInv, ConnTypeOK, QueueTypeOK
  <2>3. ASSUME NEW p \in ConnPtr, ConnectStarts(p), UNCHANGED frame
        PROVE  EngineInv'
    <3>1. ConnInv'
      BY <1>0, <2>3, NewConnInv DEF ConnectStarts, Kind, ConnInv, ConnTypeOK
    <3>2. CallbackConnLive'
      BY <2>1, <2>3, <3>1, NoFrameNoConn, FrameKeepsConn
    <3>3. QED
      BY <1>0, <2>1, <2>3, <3>1, <3>2 DEF EngineInv, TypeOK, ConnInv, ConnTypeOK, QueueTypeOK
  <2>4. QED
    BY <1>3, <2>2, <2>3 DEF ProcessConnect
<1>4. QED
  BY <1>1, <1>2, <1>3

\* The events of the listener.
LEMMA AcceptStep ==
  ASSUME EngineInv, AcceptFails \/ \E p \in ConnPtr : AcceptConn(p)
  PROVE  EngineInv'
<1>0. ConnInv /\ frame \in FrameType
  BY InvParts
<1>1. CASE AcceptFails
  <2>1. ConnInv' /\ conn' = conn
    BY <1>0, <1>1, NoNewConnInv DEF AcceptFails, Kind
  <2>2. CallbackConnLive'
    BY <1>1, <2>1, FrameKeepsConn DEF AcceptFails
  <2>3. QED
    BY <1>0, <1>1, <2>1, <2>2, EventStep DEF AcceptFails
<1>2. ASSUME NEW p \in ConnPtr, AcceptConn(p)
      PROVE  EngineInv'
  <2>1. connectedCount' \in [Kind -> Int]
    BY <1>0, <1>2 DEF AcceptConn, ConnInv, ConnTypeOK, Kind
  <2>2. ConnInv' /\ \E i \in Nat : conn'[p] = Conn("user", i, "Connected")
    BY <1>0, <1>2, <2>1, NewConnInv DEF AcceptConn, Kind
  <2>3. CallbackConnLive' /\ frame' \in FrameType
    BY <1>2, <2>2, FrameBegins DEF AcceptConn, Conn, IsLive
  <2>4. QED
    BY <1>2, <2>2, <2>3, EventStep DEF AcceptConn
<1>3. QED
  BY <1>1, <1>2

\* The events of a connection.
LEMMA ConnEventStep ==
  ASSUME EngineInv, NEW p \in ConnPtr,
         ConnectedEvent(p) \/ ErrorEvent(p) \/ RecvPacket(p) \/ BadPacket(p)
  PROVE  EngineInv'
<1>0. ConnInv /\ frame \in FrameType
  BY InvParts
<1>1. CASE ConnectedEvent(p)
  <2>1. IsLive(p)
    BY <1>1 DEF ConnectedEvent, IsLive
  <2>2. ConnInv'
    BY <1>0, <1>1, <2>1, ConnectedInv DEF ConnectedEvent
  <2>3. conn'[p].eConnState = "Connected" /\ IsLive(p)'
    BY <1>0, <1>1 DEF ConnectedEvent, ConnInv, ConnTypeOK, ConnType, IsLive
  <2>4. CallbackConnLive' /\ frame' \in FrameType
    BY <1>1, <2>2, <2>3, FrameBegins DEF ConnectedEvent
  <2>5. QED
    BY <1>1, <2>2, <2>4, EventStep DEF ConnectedEvent
<1>2. CASE ErrorEvent(p)
  <2>1. CASE conn[p].kind = "server" /\ conn[p].eConnState = "Connecting"
    <3>1. frame' = Callback("OnConnectFailed", p) /\ UNCHANGED connVars
      BY <1>2, <2>1 DEF ErrorEvent
    <3>2. ConnInv'
      BY <1>0, <3>1, ConnSame
    <3>3. conn'[p].eConnState = "Connecting" /\ IsLive(p)'
      BY <2>1, <3>1 DEF IsLive, connVars
    <3>4. CallbackConnLive' /\ frame' \in FrameType
      BY <3>1, <3>2, <3>3, FrameBegins
    <3>5. QED
      BY <1>2, <3>2, <3>4, EventStep DEF ErrorEvent
  <2>2. CASE ~(conn[p].kind = "server" /\ conn[p].eConnState = "Connecting")
    <3>1. ConnInv' /\ CallbackConnLive' /\ frame' \in FrameType
      BY <1>2, <2>2, ClosedInv DEF ErrorEvent, AtLoop
    <3>2. QED
      BY <1>2, <3>1, EventStep DEF ErrorEvent
  <2>3. QED
    BY <2>1, <2>2
<1>3. CASE RecvPacket(p)
  <2>1. ConnInv'
    BY <1>0, <1>3, ConnSame DEF RecvPacket
  <2>2. IsLive(p)'
    BY <1>3 DEF RecvPacket, IsLive, connVars
  <2>3. CallbackConnLive' /\ frame' \in FrameType
    BY <1>3, <2>1, <2>2, FrameBegins DEF RecvPacket
  <2>4. QED
    BY <1>3, <2>1, <2>3, EventStep DEF RecvPacket
<1>4. CASE BadPacket(p)
  <2>1. ConnInv' /\ CallbackConnLive' /\ frame' \in FrameType
    BY <1>4, ClosedInv DEF BadPacket, AtLoop
  <2>2. QED
    BY <1>4, <2>1, EventStep DEF BadPacket
<1>5. QED
  BY <1>1, <1>2, <1>3, <1>4

\* The calls that the application makes in a callback.
LEMMA CallbackCallStep ==
  ASSUME EngineInv,
         \/ \E op \in CallbackCalls, s \in Slot \cup {NoSlot} : CallbackQueues(op, s)
         \/ CallbackConnects
  PROVE  EngineInv'
<1>0. ConnInv /\ frame \in FrameType
  BY InvParts
<1>1. /\ OneCallMore \in FrameType
      /\ OneCallMore.cb = frame.cb /\ OneCallMore.conn = frame.conn
      /\ LET f == [OneCallMore EXCEPT !.depth = @ + 1] IN
         f \in FrameType /\ f.cb = frame.cb /\ f.conn = frame.conn
  <2>1. /\ OneCallMore \in FrameType
        /\ OneCallMore.cb = frame.cb /\ OneCallMore.conn = frame.conn
    BY <1>0 DEF OneCallMore, FrameType
  <2>2. ASSUME NEW g \in FrameType
        PROVE  LET f == [g EXCEPT !.depth = @ + 1] IN
               f \in FrameType /\ f.cb = g.cb /\ f.conn = g.conn
    BY DEF FrameType
  <2>3. QED
    BY <2>1, <2>2
<1>2. ASSUME NEW op \in CallbackCalls, NEW s \in Slot \cup {NoSlot}, CallbackQueues(op, s)
      PROVE  EngineInv'
  <2>1. op \in {"Send", "Close", "Connect"} /\ Worker \in Caller
    BY <1>2 DEF CallbackQueues, Asks, Caller
  <2>2. Asked(Worker, op, s) \in ActionType
    BY <1>2, <2>1, AskedType DEF CallbackQueues, EngineInv
  <2>3. eventBuffer' \in Seq(ActionType)
    BY <1>2, <2>2 DEF CallbackQueues, EngineInv, TypeOK
  <2>4. (QueueTypeOK /\ MutexOwned /\ NoLostWakeup)'
    BY <1>2, <2>3 DEF CallbackQueues, EngineInv, TypeOK, QueueTypeOK, MutexOwned, NoLostWakeup
  <2>5. ConnInv'
    BY <1>0, <1>2, ConnSame DEF CallbackQueues
  <2>6. CallbackConnLive'
    BY <1>1, <1>2, <2>5, FrameKeepsConn DEF CallbackQueues, connVars
  <2>7. frame' \in FrameType
    BY <1>1, <1>2 DEF CallbackQueues
  <2>8. QED
    BY <2>4, <2>5, <2>6, <2>7 DEF EngineInv, TypeOK, ConnInv, ConnTypeOK, QueueTypeOK
<1>3. CASE CallbackConnects
  <2>1. frame' \in FrameType /\ frame'.cb = frame.cb /\ frame'.conn = frame.conn
    BY <1>1, <1>3 DEF CallbackConnects
  <2>2. ASSUME NEW p \in ConnPtr, ConnectStarts(p)
        PROVE  ConnInv' /\ (frame.conn # NoConn => conn'[frame.conn] = conn[frame.conn])
    <3>1. /\ ConnInv' /\ ~IsLive(p)
          /\ \A r \in ConnPtr \ {p} : conn'[r] = conn[r]
      BY <1>0, <2>2, NewConnInv DEF ConnectStarts, Kind, ConnInv, ConnTypeOK
    <3>2. frame.conn # NoConn => frame.conn \in ConnPtr \ {p}
      BY <1>0, <3>1 DEF EngineInv, CallbackConnLive, FrameType
    <3>3. QED
      BY <3>1, <3>2
  <2>3. ASSUME ConnectRefused
        PROVE  ConnInv' /\ conn' = conn
    BY <1>0, <2>3, NoNewConnInv DEF ConnectRefused, Kind
  <2>4. ConnInv' /\ (frame.conn # NoConn => conn'[frame.conn] = conn[frame.conn])
    BY <1>3, <2>2, <2>3 DEF CallbackConnects
  <2>5. CallbackConnLive'
    BY <2>1, <2>4, FrameKeepsConn
  <2>6. QED
    BY <1>3, <2>1, <2>4, <2>5, EventStep DEF CallbackConnects
<1>4. QED
  BY <1>2, <1>3

\* The returns of callbacks, with what the engine does after them.
LEMMA ReturnStep ==
  ASSUME EngineInv, CallbackReturns
  PROVE  EngineInv'
<1>0. ConnInv /\ frame \in FrameType
  BY InvParts
<1>1. CASE NestedReturns
  <2>1. frame' \in FrameType /\ frame'.cb = frame.cb /\ frame'.conn = frame.conn
    BY <1>0, <1>1 DEF NestedReturns, FrameType
  <2>2. ConnInv'
    BY <1>0, <1>1, ConnSame DEF NestedReturns
  <2>3. CallbackConnLive'
    BY <1>1, <2>1, <2>2, FrameKeepsConn DEF NestedReturns, connVars
  <2>4. QED
    BY <1>1, <2>1, <2>2, <2>3, EventStep DEF NestedReturns
<1>2. CASE AcceptReturns
  <2>1. ConnInv'
    BY <1>0, <1>2, ConnSame DEF AcceptReturns
  <2>2. CASE conn[frame.conn].kind = "server"
    <3>1. /\ frame.conn \in ConnPtr
          /\ conn'[frame.conn].eConnState = "Connected"
          /\ conn'[frame.conn].kind = "server"
      BY <1>0, <1>2, <2>2 DEF AcceptReturns, Returning, EngineInv, CallbackConnLive, FrameType, connVars
    <3>2. CallbackConnLive' /\ frame' \in FrameType
      BY <1>2, <2>1, <2>2, <3>1, FrameBegins DEF AcceptReturns, IsLive
    <3>3. QED
      BY <1>2, <2>1, <3>2, EventStep DEF AcceptReturns
  <2>3. CASE conn[frame.conn].kind # "server"
    <3>1. CallbackConnLive' /\ frame' \in FrameType
      BY <1>2, <2>3, FrameEnds DEF AcceptReturns
    <3>2. QED
      BY <1>2, <2>1, <3>1, EventStep DEF AcceptReturns
  <2>4. QED
    BY <2>2, <2>3
<1>3. CASE SuccessReturns
  <2>1. ConnInv'
    BY <1>0, <1>3 DEF SuccessReturns, ConnInv, ConnTypeOK, Kind, IndexOwned, IsLive, SlotOf
  <2>2. CallbackConnLive' /\ frame' \in FrameType
    BY <1>3, FrameEnds DEF SuccessReturns
  <2>3. QED
    BY <1>3, <2>1, <2>2, EventStep DEF SuccessReturns
<1>4. CASE ClosingReturns
  <2>1. frame.conn \in ConnPtr /\ IsLive(frame.conn)
    BY <1>0, <1>4 DEF ClosingReturns, Returning, EngineInv, CallbackConnLive, FrameType
  <2>2. ConnInv'
    BY <1>0, <1>4, <2>1, DeleteConnInv DEF ClosingReturns
  <2>3. CallbackConnLive' /\ frame' \in FrameType
    BY <1>4, FrameEnds DEF ClosingReturns
  <2>4. QED
    BY <1>4, <2>2, <2>3, EventStep DEF ClosingReturns
<1>5. CASE LastReturns
  <2>1. ConnInv'
    BY <1>0, <1>5, ConnSame DEF LastReturns
  <2>2. CallbackConnLive' /\ frame' \in FrameType
    BY <1>5, FrameEnds DEF LastReturns
  <2>3. QED
    BY <1>5, <2>1, <2>2, EventStep DEF LastReturns
<1>6. QED
  BY <1>1, <1>2, <1>3, <1>4, <1>5 DEF CallbackReturns
-----------------------------------------------------------------------------
(* The theorems.                                                           *)

\* The engine as the event loop finds it.
LEMMA EngineInit == Init => EngineInv
<1> SUFFICES ASSUME Init PROVE EngineInv
  OBVIOUS
<1> USE DEF Init
<1>1. \A k \in Kind : FullPool(MaxConn(k)) \in Seq(Nat) /\ IsPool(FullPool(MaxConn(k)), MaxConn(k))
  BY SlotFacts, FullPoolIsPool
<1>2. ConnTypeOK
  BY <1>1, ConnFacts DEF ConnTypeOK
<1>3. \A p \in ConnPtr : ~IsLive(p)
  BY DEF IsLive, Deleted, Conn
<1>4. IndexOwned
  BY <1>1, <1>3 DEF IndexOwned
<1>5. NoAction \in ActionType
  BY DEF NoAction, Action, ActionType, Caller
<1>6. QueueTypeOK
  <2>1. eventBuffer \in Seq(ActionType)
    OBVIOUS
  <2>2. call \in [Threads -> [pc : {"idle", "lock", "awake"}, act : ActionType]]
    BY <1>5
  <2>3. QED
    BY <2>1, <2>2 DEF QueueTypeOK
<1>7. frame \in FrameType /\ frame.conn = NoConn /\ frame.cb = "none"
  BY FrameFacts DEF NoFrame, Callback
<1>8. MutexOwned
  BY ConstantsAssumption DEF MutexOwned, Caller
<1>9. NoLostWakeup /\ CallbackConnLive
  BY <1>7 DEF NoLostWakeup, CallbackConnLive
<1>10. QED
  BY <1>2, <1>4, <1>6, <1>7, <1>8, <1>9, InvParts DEF ConnInv

\* EngineInv is an invariant of the engine.
THEOREM EngineInvariant == Spec => []EngineInv
<1>1. EngineInv /\ [Next]_vars => EngineInv'
  <2> SUFFICES ASSUME EngineInv, [Next]_vars PROVE EngineInv'
    OBVIOUS
  <2>1. CASE WakeRead \/ LockQueue \/ ReleaseQueue
    BY <2>1, PassStep
  <2>2. CASE ProcessSend \/ ProcessClose \/ ProcessConnect
    BY <2>2, ProcessStep
  <2>3. CASE AcceptFails \/ \E p \in ConnPtr : AcceptConn(p)
    BY <2>3, AcceptStep
  <2>4. ASSUME NEW p \in ConnPtr,
               ConnectedEvent(p) \/ ErrorEvent(p) \/ RecvPacket(p) \/ BadPacket(p)
        PROVE  EngineInv'
    BY <2>4, ConnEventStep
  <2>5. CASE \/ \E op \in CallbackCalls, s \in Slot \cup {NoSlot} : CallbackQueues(op, s)
             \/ CallbackConnects
    BY <2>5, CallbackCallStep
  <2>6. CASE CallbackReturns
    BY <2>6, ReturnStep
  <2>7. ASSUME NEW t \in Threads, ThreadNext(t) PROVE EngineInv'
    BY <2>7, ThreadStep
  <2>8. CASE UNCHANGED vars
    <3>1. UNCHANGED <<connVars, queueVars, workerPc, frame>>
      BY <2>8 DEF vars, connVars, queueVars
    <3>2. QED
      BY <3>1, QueueSame, QueueStep
  <2>9. QED
    BY <2>1, <2>2, <2>3, <2>4, <2>5, <2>6, <2>7, <2>8
       DEF Next, WorkerNext, ProcessConnEvent, ConnEvent
<1>2. QED
  BY <1>1, EngineInit, PTL DEF Spec

\* The state of the engine keeps its types.
THEOREM TypeCorrect == Spec => []TypeOK
<1>1. EngineInv => TypeOK
  BY DEF EngineInv
<1>2. QED
  BY <1>1, EngineInvariant, PTL

\* No two connections ever share an index, and no index in use is free.
THEOREM IndexesOwned == Spec => []IndexOwned
<1>1. EngineInv => IndexOwned
  BY DEF EngineInv
<1>2. QED
  BY <1>1, EngineInvariant, PTL

\* No action is ever left in the queue with nobody to look at it.
THEOREM NoWakeupIsLost == Spec => []NoLostWakeup
<1>1. EngineInv => NoLostWakeup
  BY DEF EngineInv
<1>2. QED
  BY <1>1, EngineInvariant, PTL

\* The mutex of the queue has the owner that the code gives it.
THEOREM MutexIsOwned == Spec => []MutexOwned
<1>1. EngineInv => MutexOwned
  BY DEF EngineInv
<1>2. QED
  BY <1>1, EngineInvariant, PTL

\* The connection of a running callback outlives the callback.
THEOREM CallbackConnsLive == Spec => []CallbackConnLive
<1>1. EngineInv => CallbackConnLive
  BY DEF EngineInv
<1>2. QED
  BY <1>1, EngineInvariant, PTL
-----------------------------------------------------------------------------
(* The engine keeps the application's contract, and counts its user        *)
(* connections.                                                            *)

\* The state of AppSessions, read off the engine's.
Sess == [s \in Slot |-> Session(s)]
Told == [what |-> frame.cb,
         slot |-> IF frame.conn = NoConn THEN NoSlot ELSE SlotOf(frame.conn)]
Silence == [what |-> "none", slot |-> NoSlot]

\* The connection of an open session.
OpenConn(p) ==
    /\ conn[p].eConnState = "Connected"
    /\ ~(frame.cb = "OnDisconnected" /\ frame.conn = p)

\* A step of the contract, or a step that the application does not notice.
AppStep == [App!AppNext]_(App!appVars)
-----------------------------------------------------------------------------
(* The steps of the contract, in these terms.                              *)

\* What changes neither sessions nor the callback is no step of the contract.
LEMMA Unnoticed == Sess' = Sess /\ Told' = Told => AppStep
BY DEF AppStep, App!appVars, Sess, Told

\* A session opens with the accept callback.
LEMMA Accepts ==
  ASSUME NEW s \in Slot, Told = Silence, Sess[s] = "closed",
         Sess' = [Sess EXCEPT ![s] = "open"], Told' = [what |-> "OnAccept", slot |-> s]
  PROVE  AppStep
BY DEF AppStep, App!AppNext, App!Accept, App!NoCallback, App!Calls, Sess, Told, Silence

\* fnSuccess follows a server's accept callback.
LEMMA Succeeds ==
  ASSUME NEW s \in Slot, Told = [what |-> "OnAccept", slot |-> s], s[1] # "user",
         Sess' = Sess, Told' = [what |-> "OnConnectSuccess", slot |-> s]
  PROVE  AppStep
BY DEF AppStep, App!AppNext, App!ConnectSuccess, App!IsUser, App!Calls, Sess, Told

\* fnFailed is called for a slot without a session, or for none.
LEMMA Fails ==
  ASSUME NEW s \in Slot \cup {NoSlot}, Told = Silence, s # NoSlot => Sess[s] = "closed",
         Sess' = Sess, Told' = [what |-> "OnConnectFailed", slot |-> s]
  PROVE  AppStep
BY DEF AppStep, App!AppNext, App!ConnectFailed, App!NoCallback, App!Calls, Sess, Told, Silence

\* A packet is handed over; a user has a session then.
LEMMA Receives ==
  ASSUME NEW s \in Slot, Told = Silence, s[1] = "user" => Sess[s] = "open",
         Sess' = Sess, Told' = [what |-> "OnRecv", slot |-> s]
  PROVE  AppStep
BY DEF AppStep, App!AppNext, App!Recv, App!IsUser, App!NoCallback, App!Calls, Sess, Told, Silence

\* A session closes with the disconnect callback.
LEMMA Disconnects ==
  ASSUME NEW s \in Slot, Told = Silence, Sess[s] = "open",
         Sess' = [Sess EXCEPT ![s] = "closed"], Told' = [what |-> "OnDisconnected", slot |-> s]
  PROVE  AppStep
BY DEF AppStep, App!AppNext, App!Disconnect, App!NoCallback, App!Calls, Sess, Told, Silence

\* A callback returns; after a server's accept callback fnSuccess follows.
LEMMA Returns ==
  ASSUME Told.what # "none", Told.what = "OnAccept" => Told.slot[1] = "user",
         Sess' = Sess, Told' = Silence
  PROVE  AppStep
<1>1. Told # Silence
  BY DEF Silence
<1>2. QED
  BY <1>1 DEF AppStep, App!AppNext, App!Return, App!IsUser, App!NoCallback, Sess, Told, Silence
-----------------------------------------------------------------------------
(* Sessions and connections.                                               *)

\* A session is open while its slot has an open connection, and two
\* connections with the same slot are one.
SessionsFollow ==
    /\ \A s \in Slot :
          /\ Session(s) \in {"open", "closed"}
          /\ Session(s) = "open" <=> \E p \in ConnPtr : OpenConn(p) /\ SlotOf(p) = s
    /\ \A p, r \in ConnPtr : IsLive(p) /\ IsLive(r) /\ SlotOf(p) = SlotOf(r) => p = r
    /\ \A p \in ConnPtr : IsLive(p) => SlotOf(p) \in Slot

\* SessionsFollow is what IndexOwned says, for sessions.
LEMMA SessionsAreConns == ConnInv => SessionsFollow
<1> SUFFICES ASSUME ConnInv PROVE SessionsFollow
  OBVIOUS
<1>1. ASSUME NEW s \in Slot
      PROVE  /\ Session(s) \in {"open", "closed"}
             /\ Session(s) = "open" <=> \E p \in ConnPtr : OpenConn(p) /\ SlotOf(p) = s
  <2>1. connArray[s] # NoConn => connArray[s] \in ConnPtr /\ SlotOf(connArray[s]) = s
    BY DEF ConnInv, ConnTypeOK, IndexOwned
  <2>2. ASSUME NEW p \in ConnPtr, OpenConn(p), SlotOf(p) = s
        PROVE  connArray[s] = p /\ p # NoConn
    BY <2>2, ConstantsAssumption DEF OpenConn, ConnInv, IndexOwned, IsLive
  <2>3. QED
    BY <2>1, <2>2 DEF Session, OpenConn
<1>2. QED
  BY <1>1 DEF SessionsFollow, ConnInv, IndexOwned

\* The same of the next state.
LEMMA SessionsAreConnsNext == ConnInv' => SessionsFollow'
BY SessionsAreConns, PTL

\* The sessions stay as they are when the open connections do ...
LEMMA SessionsStay ==
  ASSUME ConnInv, ConnInv',
         \A r \in ConnPtr : OpenConn(r)' <=> OpenConn(r),
         \A r \in ConnPtr : OpenConn(r) => SlotOf(r)' = SlotOf(r)
  PROVE  Sess' = Sess
<1>1. ASSUME NEW s \in Slot
      PROVE  Session(s)' = Session(s)
  BY SessionsAreConns, SessionsAreConnsNext DEF SessionsFollow
<1>2. QED
  BY <1>1 DEF Sess

\* ... and one of them opens or closes with its connection.
LEMMA SessionOpens ==
  ASSUME ConnInv, ConnInv', NEW p \in ConnPtr, ~OpenConn(p), OpenConn(p)',
         NEW s \in Slot, SlotOf(p)' = s,
         \A r \in ConnPtr \ {p} : OpenConn(r)' <=> OpenConn(r),
         \A r \in ConnPtr \ {p} : OpenConn(r) => SlotOf(r)' = SlotOf(r)
  PROVE  /\ Sess[s] = "closed"
         /\ Sess' = [Sess EXCEPT ![s] = "open"]
<1>1. SessionsFollow /\ SessionsFollow'
  BY SessionsAreConns, SessionsAreConnsNext
<1>2. \A r \in ConnPtr : OpenConn(r)' => IsLive(r)'
  BY DEF OpenConn, IsLive
<1>3. Session(s)' = "open"
  BY <1>1 DEF SessionsFollow
<1>4. \A r \in ConnPtr \ {p} : OpenConn(r) => SlotOf(r) # s
  BY <1>1, <1>2 DEF SessionsFollow
<1>5. Session(s) = "closed"
  BY <1>1, <1>4 DEF SessionsFollow
<1>6. ASSUME NEW z \in Slot, z # s
      PROVE  Session(z)' = Session(z)
  BY <1>1, <1>6 DEF SessionsFollow
<1>7. QED
  BY <1>3, <1>5, <1>6 DEF Sess

\* An open connection that is closed closes its session, and no other.
LEMMA SessionCloses ==
  ASSUME ConnInv, ConnInv', NEW p \in ConnPtr, OpenConn(p), ~OpenConn(p)',
         NEW s \in Slot, SlotOf(p) = s,
         \A r \in ConnPtr \ {p} : OpenConn(r)' <=> OpenConn(r),
         \A r \in ConnPtr \ {p} : OpenConn(r) => SlotOf(r)' = SlotOf(r)
  PROVE  /\ Sess[s] = "open"
         /\ Sess' = [Sess EXCEPT ![s] = "closed"]
<1>1. SessionsFollow /\ SessionsFollow'
  BY SessionsAreConns, SessionsAreConnsNext
<1>2. \A r \in ConnPtr : OpenConn(r) => IsLive(r)
  BY DEF OpenConn, IsLive
<1>3. Session(s) = "open"
  BY <1>1 DEF SessionsFollow
<1>4. \A r \in ConnPtr \ {p} : OpenConn(r) => SlotOf(r) # s
  BY <1>1, <1>2 DEF SessionsFollow
<1>5. Session(s)' = "closed"
  BY <1>1, <1>4 DEF SessionsFollow
<1>6. ASSUME NEW z \in Slot, z # s
      PROVE  Session(z)' = Session(z)
  BY <1>1, <1>6 DEF SessionsFollow
<1>7. QED
  BY <1>3, <1>5, <1>6 DEF Sess
-----------------------------------------------------------------------------
(* The steps of the engine.                                                *)

\* What the application hears of a callback that begins, and of silence.
LEMMA ToldBegins ==
  ASSUME NEW p \in ConnPtr, NEW cb, frame' = Callback(cb, p)
  PROVE  Told' = [what |-> cb, slot |-> SlotOf(p)']
BY ConstantsAssumption DEF Told, Callback

\* No callback runs in the next state.
LEMMA ToldSilence == frame' = NoFrame => Told' = Silence
BY DEF Told, Silence, NoFrame, Callback

\* No callback runs in this state.
LEMMA InSilence == EngineInv /\ ~InCallback => Told = Silence /\ frame.conn = NoConn
BY NoFrameNoConn DEF Told, Silence, InCallback

\* What the invariant says of a connection.
LEMMA ConnOf ==
  ASSUME EngineInv, NEW p \in ConnPtr, IsLive(p)
  PROVE  /\ ConnInv
         /\ SlotOf(p) \in Slot /\ SlotOf(p)[1] = conn[p].kind
         /\ conn[p].kind \in {"user", "server"}
         /\ conn[p].eConnState \in {"Connecting", "Connected"}
         /\ conn[p].eConnState = "Connecting" => conn[p].kind = "server"
BY InvParts DEF EngineInv, IndexOwned, IsLive, SlotOf, TypeOK, ConnType, Kind

\* Steps that the connections and the callback do not show.
LEMMA HiddenStep ==
  ASSUME EngineInv, EngineInv', conn' = conn, frame'.cb = frame.cb, frame'.conn = frame.conn
  PROVE  AppStep
<1>1. ConnInv /\ ConnInv'
  BY InvParts, PTL
<1>2. Sess' = Sess
  BY <1>1, SessionsStay DEF OpenConn, SlotOf
<1>3. Told' = Told
  BY DEF Told, SlotOf
<1>4. QED
  BY <1>2, <1>3, Unnoticed

\* A connection that begins to connect is no session yet.
LEMMA StartsStep ==
  ASSUME EngineInv, EngineInv', NEW p \in ConnPtr, ConnectStarts(p),
         frame'.cb = frame.cb, frame'.conn = frame.conn
  PROVE  AppStep
<1>1. ConnInv /\ ConnInv'
  BY InvParts, PTL
<1>2. /\ ~IsLive(p)
      /\ \A r \in ConnPtr \ {p} : conn'[r] = conn[r]
      /\ \E i \in Nat : conn'[p] = Conn("server", i, "Connecting")
  BY <1>1, NewConnInv DEF ConnectStarts, Kind, ConnInv, ConnTypeOK
<1>3. ~OpenConn(p) /\ ~OpenConn(p)'
  BY <1>2 DEF OpenConn, IsLive, Conn
<1>4. Sess' = Sess
  <2>1. \A r \in ConnPtr \ {p} : OpenConn(r)' <=> OpenConn(r)
    BY <1>2 DEF OpenConn
  <2>2. \A r \in ConnPtr \ {p} : SlotOf(r)' = SlotOf(r)
    BY <1>2 DEF SlotOf
  <2>3. QED
    BY <1>1, <1>3, <2>1, <2>2, SessionsStay
<1>5. frame.conn # NoConn => frame.conn \in ConnPtr \ {p}
  BY <1>2 DEF EngineInv, CallbackConnLive, TypeOK, FrameType
<1>6. Told' = Told
  BY <1>2, <1>5 DEF Told, SlotOf
<1>7. QED
  BY <1>4, <1>6, Unnoticed

\* A connection that is closed outside callbacks: a session ends, or there
\* was none.
LEMMA ClosedStep ==
  ASSUME EngineInv, EngineInv', ~InCallback, NEW p \in ConnPtr, IsLive(p), OnConnectionClosed(p)
  PROVE  AppStep
<1>1. ConnInv /\ ConnInv'
  BY InvParts, PTL
<1>2. Told = Silence /\ frame.conn = NoConn /\ frame.cb = "none"
  BY InSilence DEF InCallback
<1>3. CASE /\ conn[p].kind = "user" \/ conn[p].eConnState = "Connected"
           /\ frame' = Callback("OnDisconnected", p)
           /\ UNCHANGED connVars
  <2>1. conn' = conn /\ conn[p].eConnState = "Connected"
    BY <1>3, ConnOf DEF connVars
  <2>2. frame'.cb = "OnDisconnected" /\ frame'.conn = p
    BY <1>3 DEF Callback
  <2>3. OpenConn(p) /\ ~OpenConn(p)'
    BY <1>2, <2>1, <2>2 DEF OpenConn
  <2>4. \A r \in ConnPtr \ {p} : OpenConn(r)' <=> OpenConn(r)
    BY <1>2, <2>1, <2>2 DEF OpenConn
  <2>5. \A r \in ConnPtr : SlotOf(r)' = SlotOf(r)
    BY <2>1 DEF SlotOf
  <2>6. PICK s \in Slot : SlotOf(p) = s
    BY ConnOf
  <2>7. Sess[s] = "open" /\ Sess' = [Sess EXCEPT ![s] = "closed"]
    BY <1>1, <2>3, <2>4, <2>5, <2>6, SessionCloses
  <2>8. Told' = [what |-> "OnDisconnected", slot |-> s]
    BY <1>3, <2>5, <2>6, ToldBegins
  <2>9. QED
    BY <1>2, <2>7, <2>8, Disconnects
<1>4. CASE /\ conn[p].eConnState # "Connected"
           /\ DeleteConn(p) /\ UNCHANGED frame
  <2>1. /\ \A r \in ConnPtr \ {p} : conn'[r] = conn[r]
        /\ conn'[p] = Deleted
    BY <1>1, <1>4, DeleteConnInv
  <2>2. ~OpenConn(p) /\ ~OpenConn(p)'
    BY <1>4, <2>1 DEF OpenConn, Deleted, Conn
  <2>3. \A r \in ConnPtr \ {p} : (OpenConn(r)' <=> OpenConn(r)) /\ SlotOf(r)' = SlotOf(r)
    BY <1>4, <2>1 DEF OpenConn, SlotOf
  <2>4. Sess' = Sess
    BY <1>1, <2>2, <2>3, SessionsStay
  <2>5. Told' = Told
    BY <1>2, <1>4 DEF Told
  <2>6. QED
    BY <2>4, <2>5, Unnoticed
<1>5. QED
  BY <1>3, <1>4 DEF OnConnectionClosed

\* The steps of the pass, and of the threads.
LEMMA PassIsContract ==
  ASSUME EngineInv, EngineInv',
         \/ WakeRead \/ LockQueue \/ ProcessConnEvent
         \/ \E t \in Threads : ThreadNext(t)
  PROVE  AppStep
<1>1. CASE WakeRead \/ LockQueue \/ ReleaseQueue \/ ProcessSend
  BY <1>1, HiddenStep DEF WakeRead, LockQueue, ReleaseQueue, ProcessSend, connVars
<1>2. CASE ProcessClose
  <2> DEFINE p == connArray[Head(eventBuffer).slot]
  <2>1. ~InCallback /\ Head(eventBuffer).slot \in Slot
    BY <1>2, TakeInv DEF ProcessClose, ActionType
  <2>2. CASE p # NoConn /\ OnConnectionClosed(p)
    <3>1. p \in ConnPtr /\ IsLive(p)
      BY <2>1, <2>2 DEF EngineInv, TypeOK, IndexOwned
    <3>2. QED
      BY <2>1, <2>2, <3>1, ClosedStep
  <2>3. CASE UNCHANGED <<connVars, frame>>
    BY <2>3, HiddenStep DEF connVars
  <2>4. QED
    BY <1>2, <2>2, <2>3 DEF ProcessClose
<1>3. CASE ProcessConnect
  <2>1. ~InCallback
    BY <1>3, TakeInv DEF ProcessConnect
  <2>2. CASE ConnectRefused /\ frame' = Callback("OnConnectFailed", NoConn)
    <3>1. ConnInv /\ ConnInv'
      BY InvParts, PTL
    <3>2. conn' = conn
      BY <2>2 DEF ConnectRefused, NoNewConn
    <3>3. /\ frame'.cb = "OnConnectFailed" /\ frame'.conn = NoConn
          /\ frame.cb = "none" /\ frame.conn = NoConn /\ Told = Silence
      BY <2>1, <2>2, InSilence DEF Callback, InCallback
    <3>4. Sess' = Sess
      BY <3>1, <3>2, <3>3, SessionsStay DEF OpenConn, SlotOf
    <3>5. Told' = [what |-> "OnConnectFailed", slot |-> NoSlot]
      BY <3>3 DEF Told
    <3>6. QED
      BY <3>3, <3>4, <3>5, Fails
  <2>3. CASE \E p \in ConnPtr : ConnectStarts(p) /\ UNCHANGED frame
    BY <2>3, StartsStep
  <2>4. QED
    BY <1>3, <2>2, <2>3 DEF ProcessConnect
<1>4. CASE \E t \in Threads : ThreadNext(t)
  BY <1>4, HiddenStep DEF ThreadNext, BeginCall, WriteAction, Awake, connVars
<1>5. QED
  BY <1>1, <1>2, <1>3, <1>4 DEF ProcessConnEvent

\* A callback that begins outside callbacks and changes no connection: the
\* sessions stay, unless it is the disconnect callback.
LEMMA CallbackBegins ==
  ASSUME EngineInv, EngineInv', ~InCallback, NEW p \in ConnPtr, conn' = conn,
         NEW cb, cb # "OnDisconnected", frame' = Callback(cb, p)
  PROVE  /\ Told = Silence
         /\ Told' = [what |-> cb, slot |-> SlotOf(p)]
         /\ Sess' = Sess
<1>1. ConnInv /\ ConnInv'
  BY InvParts, PTL
<1>2. Told = Silence /\ frame.cb = "none"
  BY InSilence DEF InCallback
<1>3. frame'.cb # "OnDisconnected"
  BY DEF Callback
<1>4. Sess' = Sess
  BY <1>1, <1>2, <1>3, SessionsStay DEF OpenConn, SlotOf
<1>5. Told' = [what |-> cb, slot |-> SlotOf(p)]
  BY ToldBegins DEF SlotOf
<1>6. QED
  BY <1>2, <1>4, <1>5

\* The events of the listener.
LEMMA AcceptIsContract ==
  ASSUME EngineInv, EngineInv', AcceptFails \/ \E p \in ConnPtr : AcceptConn(p)
  PROVE  AppStep
<1>1. CASE AcceptFails
  BY <1>1, HiddenStep DEF AcceptFails, NoNewConn
<1>2. ASSUME NEW p \in ConnPtr, AcceptConn(p)
      PROVE  AppStep
  <2>1. ConnInv /\ ConnInv'
    BY InvParts, PTL
  <2>2. /\ ~IsLive(p)
        /\ \A r \in ConnPtr \ {p} : conn'[r] = conn[r]
        /\ \E i \in Nat : conn'[p] = Conn("user", i, "Connected")
    BY <1>2, <2>1, NewConnInv DEF AcceptConn, Kind, ConnInv, ConnTypeOK
  <2>3. Told = Silence /\ frame.cb = "none" /\ frame'.cb = "OnAccept"
    BY <1>2, InSilence DEF AcceptConn, AtLoop, InCallback, Callback
  <2>4. ~OpenConn(p) /\ OpenConn(p)'
    BY <2>2, <2>3 DEF OpenConn, IsLive, Conn
  <2>5. \A r \in ConnPtr \ {p} : (OpenConn(r)' <=> OpenConn(r)) /\ SlotOf(r)' = SlotOf(r)
    BY <2>2, <2>3 DEF OpenConn, SlotOf
  <2>6. PICK s \in Slot : SlotOf(p)' = s
    BY <2>1, <2>4 DEF ConnInv, IndexOwned, OpenConn, IsLive
  <2>7. Sess[s] = "closed" /\ Sess' = [Sess EXCEPT ![s] = "open"]
    BY <2>1, <2>4, <2>5, <2>6, SessionOpens
  <2>8. Told' = [what |-> "OnAccept", slot |-> s]
    BY <1>2, <2>6, ToldBegins DEF AcceptConn
  <2>9. QED
    BY <2>3, <2>7, <2>8, Accepts
<1>3. QED
  BY <1>1, <1>2

\* The events of a connection.
LEMMA EventIsContract ==
  ASSUME EngineInv, EngineInv', NEW p \in ConnPtr,
         ConnectedEvent(p) \/ ErrorEvent(p) \/ RecvPacket(p) \/ BadPacket(p)
  PROVE  AppStep
<1>0. ConnInv /\ ConnInv'
  BY InvParts, PTL
<1>1. CASE ConnectedEvent(p)
  <2>1. /\ conn[p].eConnState = "Connecting"
        /\ conn' = [conn EXCEPT ![p].eConnState = "Connected"]
        /\ frame' = Callback("OnAccept", p) /\ ~InCallback
    BY <1>1 DEF ConnectedEvent, AtLoop
  <2>2. Told = Silence /\ frame.cb = "none" /\ frame'.cb = "OnAccept"
    BY <2>1, InSilence DEF InCallback, Callback
  <2>3. /\ \A r \in ConnPtr \ {p} : conn'[r] = conn[r]
        /\ conn'[p].eConnState = "Connected"
    BY <1>0, <2>1 DEF ConnInv, ConnTypeOK, ConnType
  <2>4. ~OpenConn(p) /\ OpenConn(p)'
    BY <2>1, <2>2, <2>3 DEF OpenConn
  <2>5. \A r \in ConnPtr \ {p} : (OpenConn(r)' <=> OpenConn(r)) /\ SlotOf(r)' = SlotOf(r)
    BY <2>2, <2>3 DEF OpenConn, SlotOf
  <2>6. PICK s \in Slot : SlotOf(p)' = s
    BY <1>0, <2>3 DEF ConnInv, IndexOwned, IsLive
  <2>7. Sess[s] = "closed" /\ Sess' = [Sess EXCEPT ![s] = "open"]
    BY <1>0, <2>4, <2>5, <2>6, SessionOpens
  <2>8. Told' = [what |-> "OnAccept", slot |-> s]
    BY <2>1, <2>6, ToldBegins
  <2>9. QED
    BY <2>2, <2>7, <2>8, Accepts
<1>2. CASE ErrorEvent(p)
  <2>1. CASE conn[p].kind = "server" /\ conn[p].eConnState = "Connecting"
    <3>1. /\ frame' = Callback("OnConnectFailed", p) /\ conn' = conn /\ ~InCallback
          /\ IsLive(p)
      BY <1>2, <2>1 DEF ErrorEvent, AtLoop, connVars
    <3>2. /\ Told = Silence /\ Sess' = Sess
          /\ Told' = [what |-> "OnConnectFailed", slot |-> SlotOf(p)]
      BY <3>1, CallbackBegins
    <3>3. PICK s \in Slot : SlotOf(p) = s
      BY <3>1, ConnOf
    <3>4. \A r \in ConnPtr : OpenConn(r) => SlotOf(r) # s
      BY <1>0, <2>1, <3>1, <3>3, SessionsAreConns DEF SessionsFollow, OpenConn, IsLive
    <3>5. Sess[s] = "closed"
      BY <1>0, <3>4, SessionsAreConns DEF SessionsFollow, Sess
    <3>6. QED
      BY <3>2, <3>3, <3>5, Fails
  <2>2. CASE ~(conn[p].kind = "server" /\ conn[p].eConnState = "Connecting")
    BY <1>2, <2>2, ClosedStep DEF ErrorEvent, AtLoop
  <2>3. QED
    BY <2>1, <2>2
<1>3. CASE RecvPacket(p)
  <2>1. frame' = Callback("OnRecv", p) /\ conn' = conn /\ ~InCallback /\ IsLive(p)
    BY <1>3 DEF RecvPacket, AtLoop, connVars
  <2>2. /\ Told = Silence /\ Sess' = Sess
        /\ Told' = [what |-> "OnRecv", slot |-> SlotOf(p)]
    BY <2>1, CallbackBegins
  <2>3. PICK s \in Slot : SlotOf(p) = s
    BY <2>1, ConnOf
  <2>4. s[1] = "user" => OpenConn(p)
    BY <2>1, <2>3, ConnOf, InSilence DEF OpenConn, InCallback
  <2>5. s[1] = "user" => Sess[s] = "open"
    BY <1>0, <2>3, <2>4, SessionsAreConns DEF SessionsFollow, Sess
  <2>6. QED
    BY <2>2, <2>3, <2>5, Receives
<1>4. CASE BadPacket(p)
  BY <1>4, ClosedStep DEF BadPacket, AtLoop
<1>5. QED
  BY <1>1, <1>2, <1>3, <1>4

\* The calls that the application makes in a callback.
LEMMA CallsAreContract ==
  ASSUME EngineInv, EngineInv',
         \/ \E op \in CallbackCalls, s \in Slot \cup {NoSlot} : CallbackQueues(op, s)
         \/ CallbackConnects
  PROVE  AppStep
<1>1. /\ OneCallMore.cb = frame.cb /\ OneCallMore.conn = frame.conn
      /\ LET f == [OneCallMore EXCEPT !.depth = @ + 1] IN
         f.cb = frame.cb /\ f.conn = frame.conn
  BY DEF OneCallMore, EngineInv, TypeOK, FrameType
<1>2. ASSUME NEW op \in CallbackCalls, NEW s \in Slot \cup {NoSlot}, CallbackQueues(op, s)
      PROVE  AppStep
  BY <1>1, <1>2, HiddenStep DEF CallbackQueues, connVars
<1>3. CASE CallbackConnects
  <2>1. frame'.cb = frame.cb /\ frame'.conn = frame.conn
    BY <1>1, <1>3 DEF CallbackConnects
  <2>2. CASE ConnectRefused
    BY <2>1, <2>2, HiddenStep DEF ConnectRefused, NoNewConn
  <2>3. CASE \E p \in ConnPtr : ConnectStarts(p)
    BY <2>1, <2>3, StartsStep
  <2>4. QED
    BY <1>3, <2>2, <2>3 DEF CallbackConnects
<1>4. QED
  BY <1>2, <1>3

\* The returns of callbacks, with what the engine does after them.
LEMMA ReturnsAreContract ==
  ASSUME EngineInv, EngineInv', CallbackReturns
  PROVE  AppStep
<1>0. ConnInv /\ ConnInv'
  BY InvParts, PTL
<1>1. CASE NestedReturns
  BY <1>1, HiddenStep DEF NestedReturns, connVars, EngineInv, TypeOK, FrameType
<1>2. CASE AcceptReturns
  <2>1. /\ frame.cb = "OnAccept" /\ conn' = conn
        /\ frame.conn \in ConnPtr /\ IsLive(frame.conn)
    BY <1>2 DEF AcceptReturns, Returning, connVars, EngineInv, CallbackConnLive, TypeOK, FrameType
  <2> DEFINE p == frame.conn
  <2>2. PICK s \in Slot : SlotOf(p) = s /\ s[1] = conn[p].kind
    BY <2>1, ConnOf
  <2>3. Told = [what |-> "OnAccept", slot |-> s]
    BY <2>1, <2>2, ConstantsAssumption DEF Told
  <2>4. frame'.cb # "OnDisconnected"
    BY <1>2 DEF AcceptReturns, Callback, NoFrame
  <2>5. Sess' = Sess
    BY <1>0, <2>1, <2>4, SessionsStay DEF OpenConn, SlotOf
  <2>6. CASE conn[p].kind = "server"
    <3>1. frame' = Callback("OnConnectSuccess", p)
      BY <1>2, <2>6 DEF AcceptReturns
    <3>2. Told' = [what |-> "OnConnectSuccess", slot |-> s]
      <4> HIDE DEF p
      <4>1. SlotOf(p) = s /\ conn' = conn /\ p \in ConnPtr
        BY <2>1, <2>2 DEF p
      <4>2. frame'.cb = "OnConnectSuccess" /\ frame'.conn = p
        BY <3>1 DEF Callback
      <4>3. QED
        BY <4>1, <4>2, ConstantsAssumption DEF Told, SlotOf
    <3>3. QED
      BY <2>2, <2>3, <2>5, <2>6, <3>2, Succeeds
  <2>7. CASE conn[p].kind # "server"
    <3>1. Told' = Silence
      BY <1>2, <2>7, ToldSilence DEF AcceptReturns
    <3>2. s[1] = "user"
      BY <2>1, <2>2, <2>7, ConnOf
    <3>3. QED
      BY <2>3, <2>5, <3>1, <3>2, Returns
  <2>8. QED
    BY <2>6, <2>7
<1>3. CASE SuccessReturns \/ LastReturns
  <2>1. /\ frame.cb \in {"OnConnectSuccess", "OnRecv", "OnConnectFailed"} /\ conn' = conn
        /\ frame' = NoFrame
    BY <1>3 DEF SuccessReturns, LastReturns, Returning, connVars
  <2>2. frame'.cb # "OnDisconnected"
    BY <2>1 DEF Callback, NoFrame
  <2>3. Sess' = Sess
    BY <1>0, <2>1, <2>2, SessionsStay DEF OpenConn, SlotOf
  <2>4. Told.what # "none" /\ Told.what # "OnAccept"
    BY <2>1 DEF Told
  <2>5. QED
    BY <2>1, <2>3, <2>4, ToldSilence, Returns
<1>4. CASE ClosingReturns
  <2>1. /\ frame.cb \in {"OnDisconnected", "OnConnectFailed"} /\ frame' = NoFrame
        /\ frame.conn \in ConnPtr /\ IsLive(frame.conn) /\ DeleteConn(frame.conn)
        /\ frame.cb = "OnConnectFailed" => conn[frame.conn].eConnState = "Connecting"
    BY <1>4
    DEF ClosingReturns, Returning, EngineInv, CallbackConnLive, TypeOK, FrameType
  <2>2. frame'.cb = "none"
    BY <2>1 DEF Callback, NoFrame
  <2>3. /\ \A r \in ConnPtr \ {frame.conn} : conn'[r] = conn[r]
        /\ conn'[frame.conn] = Deleted
    BY <1>0, <2>1, DeleteConnInv
  <2>4. ~OpenConn(frame.conn)
    BY <2>1 DEF OpenConn
  <2>5. \A r \in ConnPtr : OpenConn(r)' <=> OpenConn(r)
    BY <2>1, <2>2, <2>3, <2>4 DEF OpenConn, Deleted, Conn
  <2>6. \A r \in ConnPtr : OpenConn(r) => SlotOf(r)' = SlotOf(r)
    BY <2>3, <2>4 DEF SlotOf
  <2>7. Sess' = Sess
    BY <1>0, <2>5, <2>6, SessionsStay
  <2>8. Told.what # "none" /\ Told.what # "OnAccept"
    BY <2>1 DEF Told
  <2>9. QED
    BY <2>1, <2>7, <2>8, ToldSilence, Returns
<1>5. QED
  BY <1>1, <1>2, <1>3, <1>4 DEF CallbackReturns
-----------------------------------------------------------------------------
\* The engine keeps the contract: it begins with every session closed and no
\* callback, and each of its steps is one of the contract's, or is not
\* noticed by the application.
THEOREM EngineKeepsContract == Spec => AppSpec
<1>1. Init => App!AppInit
  <2> SUFFICES ASSUME Init PROVE App!AppInit
    OBVIOUS
  <2>1. \A s \in Slot : Session(s) = "closed"
    BY DEF Init, Session
  <2>2. frame.cb = "none" /\ frame.conn = NoConn
    BY DEF Init, NoFrame, Callback
  <2>3. QED
    BY <2>1, <2>2 DEF App!AppInit, App!NoCallback
<1>2. EngineInv /\ EngineInv' /\ [Next]_vars => AppStep
  <2> SUFFICES ASSUME EngineInv, EngineInv', [Next]_vars PROVE AppStep
    OBVIOUS
  <2>1. CASE UNCHANGED vars
    BY <2>1, HiddenStep DEF vars
  <2>2. CASE Next
    BY <2>2, PassIsContract, AcceptIsContract, EventIsContract, CallsAreContract,
       ReturnsAreContract
    DEF Next, WorkerNext, ConnEvent
  <2>3. QED
    BY <2>1, <2>2
<1>3. QED
  BY <1>1, <1>2, EngineInvariant, PTL DEF Spec, AppSpec, App!AppSpec, AppStep
-----------------------------------------------------------------------------
(* The count of users.                                                     *)

Users == {p \in ConnPtr : IsLive(p) /\ conn[p].kind = "user"}

\* There are finitely many users, since there are finitely many addresses.
LEMMA UsersFinite == IsFiniteSet(Users) /\ Cardinality(Users) \in Nat
BY ConstantsAssumption, FS_Subset, FS_CardinalityType DEF Users

\* The count is right as long as neither it nor the users change.
LEMMA CountSame ==
  ASSUME UserCountExact, connectedCount'["user"] = connectedCount["user"],
         \A r \in ConnPtr : (IsLive(r) /\ conn[r].kind = "user")'
                             <=> IsLive(r) /\ conn[r].kind = "user"
  PROVE  UserCountExact'
BY DEF UserCountExact

\* A user that is accepted is counted ...
LEMMA CountAccept ==
  ASSUME EngineInv, UserCountExact, NEW p \in ConnPtr, AcceptConn(p)
  PROVE  UserCountExact'
<1>1. ConnInv
  BY InvParts
<1>2. connectedCount'["user"] = connectedCount["user"] + 1 /\ connectedCount' \in [Kind -> Int]
  BY <1>1 DEF AcceptConn, ConnInv, ConnTypeOK, Kind
<1>3. /\ ~IsLive(p)
      /\ \A r \in ConnPtr \ {p} : conn'[r] = conn[r]
      /\ \E i \in Nat : conn'[p] = Conn("user", i, "Connected")
  BY <1>1, <1>2, NewConnInv DEF AcceptConn, Kind
<1>4. IsLive(p)' /\ conn'[p].kind = "user"
  BY <1>3 DEF IsLive, Conn
<1>5. Users' = Users \cup {p} /\ p \notin Users
  BY <1>3, <1>4 DEF Users, IsLive
<1>6. Cardinality(Users') = Cardinality(Users) + 1
  BY <1>5, UsersFinite, FS_AddElement
<1>7. connectedCount["user"] = Cardinality(Users)
  BY DEF UserCountExact, Users
<1>8. QED
  BY <1>2, <1>6, <1>7 DEF UserCountExact, Users

\* ... and not counted any more when it is deleted; servers are not users.
LEMMA CountDelete ==
  ASSUME EngineInv, UserCountExact, NEW p \in ConnPtr, IsLive(p), DeleteConn(p)
  PROVE  UserCountExact'
<1>1. ConnInv /\ conn[p].kind \in {"user", "server"}
  BY ConnOf
<1>2. /\ \A r \in ConnPtr \ {p} : conn'[r] = conn[r]
      /\ conn'[p] = Deleted
  BY <1>1, DeleteConnInv
<1>3. ~IsLive(p)'
  BY <1>2 DEF IsLive, Deleted, Conn
<1>4. connectedCount' = [connectedCount EXCEPT ![conn[p].kind] = @ - 1]
  BY DEF DeleteConn
<1>5. CASE conn[p].kind = "server"
  <2>1. connectedCount'["user"] = connectedCount["user"]
    BY <1>1, <1>4, <1>5 DEF ConnInv, ConnTypeOK, Kind
  <2>2. QED
    BY <1>2, <1>3, <1>5, <2>1, CountSame DEF IsLive
<1>6. CASE conn[p].kind = "user"
  <2>1. connectedCount'["user"] = connectedCount["user"] - 1
    BY <1>1, <1>4, <1>6 DEF ConnInv, ConnTypeOK, Kind
  <2>2. Users' = Users \ {p} /\ p \in Users
    BY <1>2, <1>3, <1>6 DEF Users, IsLive
  <2>3. Cardinality(Users') = Cardinality(Users) - 1
    BY <2>2, UsersFinite, FS_RemoveElement
  <2>4. connectedCount["user"] = Cardinality(Users)
    BY DEF UserCountExact, Users
  <2>5. QED
    BY <2>1, <2>3, <2>4 DEF UserCountExact, Users
<1>7. QED
  BY <1>1, <1>5, <1>6

\* Closing is deleting, at once or after the callback.
LEMMA CountClose ==
  ASSUME EngineInv, UserCountExact, NEW p \in ConnPtr, IsLive(p), OnConnectionClosed(p)
  PROVE  UserCountExact'
BY CountSame, CountDelete DEF OnConnectionClosed, connVars, IsLive

\* A server that begins to connect is no user.
LEMMA CountStarts ==
  ASSUME EngineInv, UserCountExact, NEW p \in ConnPtr, ConnectStarts(p)
  PROVE  UserCountExact'
<1>1. ConnInv
  BY InvParts
<1>2. /\ ~IsLive(p)
      /\ \A r \in ConnPtr \ {p} : conn'[r] = conn[r]
      /\ \E i \in Nat : conn'[p] = Conn("server", i, "Connecting")
  BY <1>1, NewConnInv DEF ConnectStarts, Kind, ConnInv, ConnTypeOK
<1>3. conn'[p].kind # "user"
  BY <1>2 DEF Conn
<1>4. connectedCount' = connectedCount
  BY DEF ConnectStarts
<1>5. QED
  BY <1>2, <1>3, <1>4, CountSame DEF IsLive

\* The count of users is exact along every path that accepts or closes one.
THEOREM UserCountIsExact == Spec => []UserCountExact
<1>1. Init => UserCountExact
  <2> SUFFICES ASSUME Init PROVE UserCountExact
    OBVIOUS
  <2>1. Users = {} /\ connectedCount["user"] = 0
    BY DEF Init, Users, IsLive, Deleted, Conn, Kind
  <2>2. QED
    BY <2>1, FS_EmptySet DEF UserCountExact, Users
<1>2. ASSUME EngineInv, UserCountExact, [Next]_vars
      PROVE  UserCountExact'
  <2> USE <1>2
  <2>1. ConnInv
    BY InvParts
  <2>2. CASE connectedCount' = connectedCount /\ conn' = conn
    BY <2>2, CountSame DEF IsLive
  <2>3. CASE ProcessClose
    <3> DEFINE p == connArray[Head(eventBuffer).slot]
    <3>1. Head(eventBuffer).slot \in Slot
      BY <2>3, TakeInv DEF ProcessClose, ActionType
    <3>2. CASE p # NoConn /\ OnConnectionClosed(p)
      <4>1. p \in ConnPtr /\ IsLive(p)
        BY <3>1, <3>2 DEF EngineInv, TypeOK, IndexOwned
      <4>2. QED
        BY <3>2, <4>1, CountClose
    <3>3. CASE UNCHANGED connVars
      BY <2>2, <3>3 DEF connVars
    <3>4. QED
      BY <2>3, <3>2, <3>3 DEF ProcessClose
  <2>4. CASE ProcessConnect \/ CallbackConnects
    BY <2>2, <2>4, CountStarts DEF ProcessConnect, CallbackConnects, ConnectRefused, NoNewConn
  <2>5. CASE \E p \in ConnPtr : AcceptConn(p)
    BY <2>5, CountAccept
  <2>6. ASSUME NEW p \in ConnPtr, ConnectedEvent(p)
        PROVE  UserCountExact'
    <3>1. /\ conn' = [conn EXCEPT ![p].eConnState = "Connected"]
          /\ connectedCount' = connectedCount /\ conn[p].eConnState = "Connecting"
      BY <2>6 DEF ConnectedEvent
    <3>2. \A r \in ConnPtr : conn'[r].kind = conn[r].kind /\ (IsLive(r)' <=> IsLive(r))
      BY <2>1, <3>1 DEF ConnInv, ConnTypeOK, ConnType, IsLive
    <3>3. QED
      BY <3>1, <3>2, CountSame
  <2>7. ASSUME NEW p \in ConnPtr, ErrorEvent(p) \/ RecvPacket(p) \/ BadPacket(p)
        PROVE  UserCountExact'
    BY <2>2, <2>7, CountClose DEF ErrorEvent, RecvPacket, BadPacket, connVars
  <2>8. CASE SuccessReturns
    <3>1. connectedCount'["user"] = connectedCount["user"] /\ conn' = conn
      BY <2>1, <2>8 DEF SuccessReturns, ConnInv, ConnTypeOK, Kind
    <3>2. QED
      BY <3>1, CountSame DEF IsLive
  <2>9. CASE ClosingReturns
    <3>1. frame.conn \in ConnPtr /\ IsLive(frame.conn) /\ DeleteConn(frame.conn)
      BY <2>9 DEF ClosingReturns, Returning, EngineInv, CallbackConnLive, TypeOK, FrameType
    <3>2. QED
      BY <3>1, CountDelete
  <2>10. CASE \/ WakeRead \/ LockQueue \/ ReleaseQueue \/ ProcessSend \/ AcceptFails
              \/ NestedReturns \/ AcceptReturns \/ LastReturns
              \/ \E op \in CallbackCalls, s \in Slot \cup {NoSlot} : CallbackQueues(op, s)
    BY <2>2, <2>10
    DEF WakeRead, LockQueue, ReleaseQueue, ProcessSend, AcceptFails, NoNewConn, NestedReturns,
        AcceptReturns, LastReturns, CallbackQueues, connVars
  <2>11. CASE \E t \in Threads : ThreadNext(t)
    BY <2>2, <2>11 DEF ThreadNext, BeginCall, WriteAction, Awake, connVars
  <2>12. CASE UNCHANGED vars
    BY <2>2, <2>12 DEF vars
  <2>13. QED
    BY <2>3, <2>4, <2>5, <2>6, <2>7, <2>8, <2>9, <2>10, <2>11, <2>12
    DEF Next, WorkerNext, ProcessConnEvent, ConnEvent, CallbackReturns
<1>3. QED
  BY <1>1, <1>2, EngineInvariant, PTL DEF Spec
-----------------------------------------------------------------------------
(* The engine uses its event buffer as a queue of actions, which           *)
(* EventBuffer_proofs shows the bytes of m_xEventBuffer to implement.      *)

Queue == INSTANCE ActionQueue WITH queue <- eventBuffer, lost <- FALSE, Sound <- ActionType

\* An action is put behind those in the queue ...
LEMMA PutsAction ==
  ASSUME EngineInv, NEW a \in ActionType, eventBuffer' = Append(eventBuffer, a)
  PROVE  Queue!QueueNext
<1>1. eventBuffer \in Seq(ActionType)
  BY DEF EngineInv, TypeOK
<1>2. Len(eventBuffer') = Len(eventBuffer) + 1 /\ eventBuffer'[Len(eventBuffer) + 1] = a
  BY <1>1
<1>3. QED
  BY <1>2 DEF Queue!QueueNext, Queue!Put

\* ... and the first one is taken.
LEMMA TakesAction ==
  ASSUME EngineInv, NEW op, Take(op)
  PROVE  Queue!QueueNext
<1>1. eventBuffer # <<>> /\ eventBuffer' = Tail(eventBuffer)
  BY DEF Take
<1>2. Head(eventBuffer) \in ActionType
  BY TakeInv
<1>3. QED
  BY <1>1, <1>2 DEF Queue!QueueNext, Queue!Take

\* What the worker and the other threads do with the event buffer, in
\* callbacks, in calls and during a pass, is what a queue of actions allows:
\* no action is taken out of turn, changed or dropped.
THEOREM EngineQueuesActions == Spec => Queue!QueueSpec
<1>1. Init => Queue!QueueInit
  BY DEF Init, Queue!QueueInit
<1>2. EngineInv /\ [Next]_vars => [Queue!QueueNext]_(Queue!queueVars)
  <2> SUFFICES ASSUME EngineInv, [Next]_vars
               PROVE  Queue!QueueNext \/ UNCHANGED eventBuffer
    BY DEF Queue!queueVars
  <2>1. CASE WakeRead \/ LockQueue \/ ReleaseQueue
    BY <2>1 DEF WakeRead, LockQueue, ReleaseQueue
  <2>2. CASE ProcessSend \/ ProcessClose \/ ProcessConnect
    BY <2>2, TakesAction DEF ProcessSend, ProcessClose, ProcessConnect
  <2>3. CASE AcceptFails \/ \E p \in ConnPtr : ConnEvent(p)
    BY <2>3 DEF AcceptFails, ConnEvent, AcceptConn, ConnectedEvent, ErrorEvent, RecvPacket,
                BadPacket, queueVars
  <2>4. ASSUME NEW op \in CallbackCalls, NEW s \in Slot \cup {NoSlot}, CallbackQueues(op, s)
        PROVE  Queue!QueueNext
    <3>1. op \in {"Send", "Close", "Connect"} /\ Worker \in Caller
      BY <2>4 DEF CallbackQueues, Asks, Caller
    <3>2. Asked(Worker, op, s) \in ActionType
      BY <2>4, <3>1, AskedType DEF CallbackQueues, EngineInv
    <3>3. QED
      BY <2>4, <3>2, PutsAction DEF CallbackQueues
  <2>5. CASE CallbackConnects
    BY <2>5 DEF CallbackConnects, queueVars
  <2>6. CASE CallbackReturns
    BY <2>6 DEF CallbackReturns, NestedReturns, AcceptReturns, SuccessReturns, ClosingReturns,
                LastReturns, queueVars
  <2>7. ASSUME NEW t \in Threads, ThreadNext(t)
        PROVE  Queue!QueueNext \/ UNCHANGED eventBuffer
    <3>1. ASSUME WriteAction(t) PROVE Queue!QueueNext
      <4>1. call[t].act \in ActionType
        BY DEF EngineInv, TypeOK
      <4>2. QED
        BY <3>1, <4>1, PutsAction DEF WriteAction
    <3>2. QED
      BY <2>7, <3>1 DEF ThreadNext, BeginCall, Awake
  <2>8. CASE UNCHANGED vars
    BY <2>8 DEF vars
  <2>9. QED
    BY <2>1, <2>2, <2>3, <2>4, <2>5, <2>6, <2>7, <2>8
       DEF Next, WorkerNext, ProcessConnEvent
<1>3. QED
  BY <1>1, <1>2, EngineInvariant, PTL DEF Spec, Queue!QueueSpec
=============================================================================
