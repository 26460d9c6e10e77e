----------------------------- MODULE EngineLifecycle -----------------------------
(***************************************************************************)
(* The life of the worker (SServerEngine.cpp: Start, Stop, __threadEntry)  *)
(* beside what goes on meanwhile: threads queue actions and call awake,    *)
(* whether there is a socket pair yet, still, or no more.  After the loop  *)
(* the worker closes connections, calling the application back, and frees  *)
(* what it has; Start may then be called again.                            *)
(*                                                                         *)
(* Preconditions: Start is called when no worker lives; one Stop is over   *)
(* before the next begins (StopAlone); the engine is not destroyed while   *)
(* its worker lives.                                                       *)
(***************************************************************************)
EXTENDS IndexQueue, FiniteSets

CONSTANTS
    MaxConnUser,            \* m_uMaxConnUser
    MaxConnServer,          \* m_uMaxConnServer
    Threads,                \* the application's threads
    MaxQueue,               \* bound: queued actions
    MaxLives                \* bound: calls of Start

Kind == {"user", "server"}
MaxConn(k) == IF k = "user" THEN MaxConnUser ELSE MaxConnServer
Slot == {<<"user", i>> : i \in 1..MaxConnUser} \cup {<<"server", i>> : i \in 1..MaxConnServer}

ASSUME LifecycleAssumption ==
    /\ MaxConnUser \in Nat /\ MaxConnUser > 1
    /\ MaxConnServer \in Nat /\ MaxConnServer > 1
    /\ MaxQueue \in Nat /\ MaxLives \in Nat

VARIABLES
    status,                 \* m_eStatus
    workerPc,               \* where the worker is in __threadEntry
    eventBase,              \* is m_pEventBase not NULL?
    breakFlag,              \* has event_base_loopbreak been called?
    socketPair,             \* m_arraySocketPair: "none", "open"
    reader,                 \* does libevent read the socket pair (m_pBvEvent)?
    pipe,                   \* is there a byte in it?
    queue,                  \* how many actions m_xEventBuffer holds
    unheard,                \* auxiliary: has the byte of one of them been lost?
    connState,              \* eConnState of each slot's connection
    freeIndex,              \* free indexes
    visit,                  \* the slot the cleanup loops have come to
    late,                   \* auxiliary: slots connected during the cleanup
    stale,                  \* auxiliary: slots that an earlier worker left behind
    call,                   \* where each application thread is
    lives                   \* how many workers have been started

connVars == <<connState, freeIndex, late, stale>>
queueVars == <<pipe, queue, unheard, call>>
setVars == <<status, eventBase, breakFlag, socketPair, reader>>
lifeVars == <<status, workerPc, eventBase, breakFlag, socketPair, reader, pipe, queue,
              unheard, connState, freeIndex, late, stale, visit, call, lives>>

NoVisit == <<"none", 0>>

LifeInit ==
    /\ status = "Stop" /\ workerPc = "none" /\ lives = 0
    /\ eventBase = FALSE /\ breakFlag = FALSE
    /\ socketPair = "none" /\ reader = FALSE /\ pipe = FALSE
    /\ queue = 0 /\ unheard = FALSE
    /\ connState = [s \in Slot |-> "none"]
    /\ freeIndex = [k \in Kind |-> FullPool(MaxConn(k))]
    /\ visit = NoVisit /\ late = {} /\ stale = {}
    /\ call = [t \in Threads |-> "idle"]
-----------------------------------------------------------------------------
(* Connections, as far as the cleanup cares.                               *)

Opens(k, st) ==
    LET i == PopIndex(freeIndex[k]) IN
    /\ i # InvalidIndex
    /\ connState' = [connState EXCEPT ![<<k, i>>] = st]
    /\ freeIndex' = [freeIndex EXCEPT ![k] = PopRest(@)]
    /\ UNCHANGED stale

Closes(s) ==
    /\ connState' = [connState EXCEPT ![s] = "none"]
    /\ freeIndex' = [freeIndex EXCEPT ![s[1]] = PushIndex(@, MaxConn(s[1]), s[2])]
    /\ late' = late \ {s}
    /\ UNCHANGED stale
-----------------------------------------------------------------------------
(* Threads: a call that queues an action, and Stop.                        *)

\* Any of SendPacketTo..., Close...Connection, Connect writes its action ...
Writes(t) ==
    /\ workerPc # "exited"
    /\ call[t] = "idle" /\ queue < MaxQueue
    /\ queue' = queue + 1
    /\ call' = [call EXCEPT ![t] = "awake"]
    /\ UNCHANGED <<setVars, workerPc, pipe, unheard, connVars, visit, lives>>

\* send: to a socket that is there, or to nowhere.
Awakens ==
    /\ pipe' = (pipe \/ socketPair = "open")
    /\ unheard' = (unheard \/ socketPair # "open")

\* ... and calls awake.
Awake(t) ==
    /\ workerPc # "exited"
    /\ call[t] = "awake"
    /\ Awakens
    /\ call' = [call EXCEPT ![t] = "idle"]
    /\ UNCHANGED <<setVars, workerPc, queue, connVars, visit, lives>>

StopAlone == ~breakFlag /\ \A t \in Threads : call[t] # "break"

\* Fault: Stop does not look at the status.
StopsAlways(t) ==
    /\ workerPc # "exited"
    /\ call[t] = "idle" /\ StopAlone /\ eventBase
    /\ call' = [call EXCEPT ![t] = "break"]
    /\ UNCHANGED <<setVars, workerPc, pipe, queue, unheard, connVars, visit, lives>>

\* Stop finds the engine Running and an event base.
StopChecks(t) ==
    /\ workerPc # "exited"
    /\ call[t] = "idle" /\ StopAlone
    /\ status = "Running" /\ eventBase
    /\ call' = [call EXCEPT ![t] = "break"]
    /\ UNCHANGED <<setVars, workerPc, pipe, queue, unheard, connVars, visit, lives>>

\* event_base_loopbreak, with the base it found.
StopBreaks(t) ==
    /\ workerPc # "exited"
    /\ call[t] = "break"
    /\ breakFlag' = TRUE
    /\ call' = [call EXCEPT ![t] = "idle"]
    /\ UNCHANGED <<status, workerPc, eventBase, socketPair, reader, pipe, queue, unheard,
                   connVars, visit, lives>>

\* Start creates the worker's thread.  Connections that the last cleanup left
\* behind keep their slots and indexes; nothing happens to them any more, as
\* their event base is gone.  (Start is not modelled after a cleanup that left
\* one where the next would find it: that is freed with a base that is gone.)
Start ==
    /\ workerPc \in {"none", "ended"} /\ lives < MaxLives
    /\ \A s \in Slot : connState[s] # "none" => s[2] = MaxConn(s[1])
    /\ workerPc' = "base"
    /\ lives' = lives + 1
    /\ late' = {}
    /\ UNCHANGED <<setVars, queueVars, connState, freeIndex, stale, visit>>
-----------------------------------------------------------------------------
(* The worker before its loop: each thing it needs is there or not.        *)

CreateBase ==
    /\ workerPc = "base"
    /\ \/ eventBase' = TRUE /\ breakFlag' = FALSE /\ workerPc' = "pair"
       \/ eventBase' = FALSE /\ workerPc' = "ended" /\ UNCHANGED breakFlag
    /\ UNCHANGED <<status, socketPair, reader, queueVars, connVars, visit, lives>>

\* Fault: the engine is Running before it has what it needs.
RunsEarly ==
    /\ workerPc = "pair"
    /\ \/ /\ socketPair' = "open" /\ reader' \in BOOLEAN
          /\ workerPc' = IF reader' THEN "listen" ELSE "ended"
          /\ pipe' = FALSE /\ unheard' = (unheard \/ pipe)
       \/ workerPc' = "ended" /\ UNCHANGED <<socketPair, reader, pipe, unheard>>
    /\ status' = "Running"
    /\ UNCHANGED <<eventBase, breakFlag, queue, call, connVars, visit, lives>>

\* The pair, and then the bufferevent that reads it.
CreatePair ==
    /\ workerPc = "pair"
    /\ \/ /\ socketPair' = "open" /\ reader' \in BOOLEAN
          /\ workerPc' = IF reader' THEN "listen" ELSE "ended"
          /\ pipe' = FALSE /\ unheard' = (unheard \/ pipe)
       \/ workerPc' = "ended" /\ UNCHANGED <<socketPair, reader, pipe, unheard>>
    /\ UNCHANGED <<status, eventBase, breakFlag, queue, call, connVars, visit, lives>>

\* Without a listener or a timer event the process exits.
Listen ==
    /\ workerPc = "listen"
    /\ workerPc' \in {"running", "exited"}
    /\ UNCHANGED <<setVars, queueVars, connVars, visit, lives>>

BecomesRunning ==
    /\ workerPc = "running"
    /\ status' = "Running"
    /\ workerPc' = "dispatch"
    /\ UNCHANGED <<eventBase, breakFlag, socketPair, reader, queueVars, connVars, visit, lives>>

\* event_base_dispatch begins with a break flag of its own: a Stop that came
\* first is forgotten.
EnterLoop ==
    /\ workerPc = "dispatch"
    /\ breakFlag' = FALSE
    /\ workerPc' = "loop"
    /\ UNCHANGED <<status, eventBase, socketPair, reader, queueVars, connVars, visit, lives>>
-----------------------------------------------------------------------------
(* The loop.                                                               *)

InLoop == workerPc = "loop" /\ ~breakFlag

\* Fault: one action for each byte.
ServeOne ==
    /\ InLoop /\ pipe
    /\ pipe' = FALSE /\ queue' = IF queue = 0 THEN 0 ELSE queue - 1
    /\ UNCHANGED <<setVars, workerPc, unheard, call, connVars, visit, lives>>

\* __onThreadRead and processConnEvent, in one: the race of its steps is
\* SServerEngine's subject.
Serve ==
    /\ InLoop /\ pipe
    /\ pipe' = FALSE /\ queue' = 0 /\ unheard' = FALSE
    /\ UNCHANGED <<setVars, workerPc, call, connVars, visit, lives>>

\* Connections come, change and go.
ConnEvent ==
    /\ InLoop
    /\ \/ Opens("user", "Connected") /\ UNCHANGED late
       \/ Opens("server", "Connecting") /\ UNCHANGED late
       \/ \E s \in Slot \ stale : /\ connState[s] = "Connecting"
                                  /\ connState' = [connState EXCEPT ![s] = "Connected"]
                                  /\ UNCHANGED <<freeIndex, late, stale>>
       \/ \E s \in Slot \ stale : connState[s] # "none" /\ Closes(s)
    /\ UNCHANGED <<setVars, workerPc, queueVars, visit, lives>>

\* A callback calls Stop.
StopInCallback ==
    /\ InLoop /\ StopAlone
    /\ breakFlag' = TRUE
    /\ UNCHANGED <<status, workerPc, eventBase, socketPair, reader, queueVars, connVars,
                   visit, lives>>

\* The break is noticed with the next event, the timer's if no other; the
\* listener is freed.
LeaveLoop ==
    /\ workerPc = "loop" /\ breakFlag
    /\ status' = "Stop"
    /\ workerPc' = "closing" /\ visit' = <<"user", 1>>
    /\ UNCHANGED <<eventBase, breakFlag, socketPair, reader, queueVars, connVars, lives>>
-----------------------------------------------------------------------------
(* The cleanup.  Index 0 of the arrays is always NULL.                     *)

\* Fault: the loops end one index earlier still.
AfterVisitShort(s) ==
    IF s[2] < MaxConn(s[1]) - 2 THEN <<s[1], s[2] + 1>>
    ELSE IF s[1] = "user" THEN <<"server", 1>> ELSE NoVisit

\* Fault: the loops go on behind the last index.
AfterVisitBeyond(s) ==
    IF s[2] < MaxConn(s[1]) + 1 THEN <<s[1], s[2] + 1>>
    ELSE IF s[1] = "user" THEN <<"server", 1>> ELSE NoVisit

\* for i < m_uMaxConnUser, then for i < m_uMaxConnServer.
AfterVisit(s) ==
    IF s[2] < MaxConn(s[1]) - 1 THEN <<s[1], s[2] + 1>>
    ELSE IF s[1] = "user" THEN <<"server", 1>> ELSE NoVisit

\* Fault: the cleanup waits for what is Connecting.
VisitWaits ==
    /\ workerPc = "closing" /\ visit # NoVisit
    /\ \/ /\ connState[visit] = "none"
          /\ visit' = AfterVisit(visit)
          /\ UNCHANGED workerPc
       \/ /\ connState[visit] = "Connected"
          /\ workerPc' = "callback"
          /\ UNCHANGED visit
    /\ UNCHANGED <<setVars, connVars, queueVars, lives>>

\* A connection that is Connected is closed with a callback, one that is
\* Connecting without.
VisitNext ==
    /\ workerPc = "closing" /\ visit # NoVisit
    /\ \/ /\ connState[visit] = "none"
          /\ visit' = AfterVisit(visit)
          /\ UNCHANGED <<connVars, workerPc>>
       \/ /\ connState[visit] = "Connecting"
          /\ Closes(visit)
          /\ visit' = AfterVisit(visit)
          /\ UNCHANGED workerPc
       \/ /\ connState[visit] = "Connected"
          /\ workerPc' = "callback"
          /\ UNCHANGED <<connVars, visit>>
    /\ UNCHANGED <<setVars, queueVars, lives>>

\* In the disconnect callback the application queues something ...
CallbackPosts ==
    /\ workerPc = "callback" /\ queue < MaxQueue
    /\ queue' = queue + 1
    /\ Awakens
    /\ UNCHANGED <<setVars, workerPc, call, connVars, visit, lives>>

\* ... or connects again at once (SyncConnect).
CallbackConnects ==
    /\ workerPc = "callback"
    /\ Opens("server", "Connecting")
    /\ late' = late \cup {<<"server", PopIndex(freeIndex["server"])>>}
    /\ UNCHANGED <<setVars, workerPc, queueVars, visit, lives>>

CallbackReturns ==
    /\ workerPc = "callback"
    /\ Closes(visit)
    /\ visit' = AfterVisit(visit)
    /\ workerPc' = "closing"
    /\ UNCHANGED <<setVars, queueVars, lives>>

\* Fault: the socket pair goes first.
FreePairFirst ==
    /\ workerPc = "closing" /\ socketPair = "open"
    /\ socketPair' = "none" /\ reader' = FALSE /\ pipe' = FALSE
    /\ unheard' = (unheard \/ queue > 0)
    /\ workerPc' = IF visit = NoVisit THEN "freeing" ELSE "closing"
    /\ UNCHANGED <<status, eventBase, breakFlag, queue, call, connVars, visit, lives>>

\* Fault: the bytes that were in the pair are thought to be still there.
FreePairOnly ==
    /\ workerPc = "closing" /\ visit = NoVisit
    /\ socketPair' = "none" /\ reader' = FALSE
    /\ pipe' = FALSE
    /\ workerPc' = "freeing"
    /\ UNCHANGED <<status, eventBase, breakFlag, queue, unheard, call, connVars, visit, lives>>

\* The socket pair is closed, with what is in it.
FreePair ==
    /\ workerPc = "closing" /\ visit = NoVisit
    /\ socketPair' = "none" /\ reader' = FALSE /\ pipe' = FALSE
    /\ unheard' = (unheard \/ queue > 0)
    /\ workerPc' = "freeing"
    /\ UNCHANGED <<status, eventBase, breakFlag, queue, call, connVars, visit, lives>>

\* Timer, timer jobs, event base.
FreeBase ==
    /\ workerPc = "freeing"
    /\ eventBase' = FALSE /\ breakFlag' = FALSE
    /\ stale' = {s \in Slot : connState[s] # "none"}
    /\ workerPc' = "ended"
    /\ UNCHANGED <<status, socketPair, reader, queueVars, connState, freeIndex, late, visit,
                   lives>>
-----------------------------------------------------------------------------
WorkerStarts == CreateBase \/ CreatePair \/ Listen \/ BecomesRunning \/ EnterLoop
WorkerEnds == LeaveLoop \/ VisitNext \/ CallbackReturns \/ FreePair \/ FreeBase

LifeNext ==
    \/ \E t \in Threads : Writes(t) \/ Awake(t) \/ StopChecks(t) \/ StopBreaks(t)
    \/ Start
    \/ WorkerStarts
    \/ Serve \/ ConnEvent \/ StopInCallback
    \/ WorkerEnds \/ CallbackPosts \/ CallbackConnects

LifeSpec == LifeInit /\ [][LifeNext]_lifeVars

\* The worker keeps running, callbacks return, libevent serves the socket
\* pair and sees the break, and threads that are in a call go on with it.
LifeFairness ==
    /\ WF_lifeVars(WorkerStarts) /\ WF_lifeVars(WorkerEnds) /\ SF_lifeVars(Serve)
    /\ \A t \in Threads : WF_lifeVars(Awake(t)) /\ WF_lifeVars(StopBreaks(t))

FairLifeSpec == LifeSpec /\ LifeFairness
-----------------------------------------------------------------------------
LifeTypeOK ==
    /\ status \in {"Stop", "Running"}
    /\ workerPc \in {"none", "base", "pair", "listen", "running", "dispatch", "loop",
                     "closing", "callback", "freeing", "ended", "exited"}
    /\ eventBase \in BOOLEAN /\ breakFlag \in BOOLEAN /\ reader \in BOOLEAN
    /\ socketPair \in {"none", "open"} /\ pipe \in BOOLEAN /\ unheard \in BOOLEAN
    /\ queue \in Nat /\ lives \in Nat
    /\ connState \in [Slot -> {"none", "Connecting", "Connected"}]
    /\ freeIndex \in [Kind -> Seq(Nat)]
    /\ visit \in Slot \cup {NoVisit} /\ late \subseteq Slot /\ stale \subseteq Slot
    /\ call \in [Threads -> {"idle", "awake", "break"}]

\* GetServerStatus tells the truth: while it says Running there are an event
\* base and a socket pair that libevent reads, through every start, failed
\* start, stop and start again.
StatusTruthful ==
    status = "Running" => eventBase /\ socketPair = "open" /\ reader

\* The event base that Stop has found is still there when Stop uses it.
StopFindsBase == \A t \in Threads : call[t] = "break" => eventBase

\* A disconnect callback of the cleanup may call the engine as any other: the
\* worker still has the base, and awake the socket pair.
CleanupCallsWork == workerPc = "callback" => eventBase /\ socketPair = "open"

\* While the loop is on, an action stays unseen only if its byte was sent
\* when there was no socket pair, or was lost with the pair of an earlier
\* worker: whoever calls awake again brings it to light.
OnlyUnheardWaits ==
    workerPc = "loop" /\ queue > 0 =>
        pipe \/ unheard \/ \E t \in Threads : call[t] = "awake"

\* What the cleanup leaves behind: at most the connection with the last
\* index of each side, and servers that a callback of the cleanup connected.
LeftBehind ==
    workerPc = "ended" =>
        \A s \in Slot : connState[s] # "none" => s[2] = MaxConn(s[1]) \/ s \in late

\* A Stop that comes while the loop is on ends the worker.
StopEndsWorker == (workerPc = "loop" /\ breakFlag) ~> workerPc = "ended"

\* While the engine is Running, awake is enough for what is queued to be
\* seen: all of it, also what was queued before there was a socket pair.
AwakeIsSeen == (status = "Running" /\ pipe) ~> (queue = 0 \/ status = "Stop")

\* "we should close all connections" (SServerEngine.cpp:811).
AllClosed == workerPc = "ended" => \A s \in Slot : connState[s] = "none"
=============================================================================
