------------------------- MODULE EngineLifecycle_proofs -------------------------
(***************************************************************************)
(* Proofs about the life of the worker, for any number of connections,     *)
(* threads, queued actions and starts.                                     *)
(***************************************************************************)
EXTENDS EngineLifecycle, Lists_proofs

\* What the worker has made and not yet freed.
HasInv ==
    /\ workerPc \in {"pair", "listen", "running", "dispatch", "loop", "closing", "callback",
                     "freeing"} => eventBase
    /\ workerPc \in {"listen", "running", "dispatch", "loop", "closing", "callback"} =>
          socketPair = "open" /\ reader

\* The status follows the worker; a Stop that has found a base is alone, and
\* the break it is about to ask for has not been asked for.
StopInv ==
    /\ status = "Running" <=> workerPc \in {"dispatch", "loop"}
    /\ \A t \in Threads : call[t] = "break" => status = "Running" /\ ~breakFlag
    /\ \A t, u \in Threads : call[t] = "break" /\ call[u] = "break" => t = u

\* Whatever is queued has its byte in the pair, has lost it, or is about to
\* get it.
QueueInv ==
    queue > 0 => pipe \/ unheard \/ \E t \in Threads : call[t] = "awake"

\* The free indexes stay indexes.
PoolInv == \A k \in Kind : IsPool(freeIndex[k], MaxConn(k))

\* The loops have gone past s.
Passed(s) ==
    \/ visit = NoVisit
    \/ s[1] = "user" /\ visit[1] = "server"
    \/ s[1] = visit[1] /\ s[2] < visit[2]

MayStay(s) == s[2] = MaxConn(s[1]) \/ s \in late

\* The cleanup has dealt with every slot it has passed, and no loop looks at
\* the last index.
CleanInv ==
    /\ visit # NoVisit => visit \in Slot /\ visit[2] < MaxConn(visit[1])
    /\ workerPc = "callback" => visit # NoVisit
    /\ workerPc = "freeing" => visit = NoVisit
    /\ workerPc \in {"closing", "callback", "freeing"} =>
          \A s \in Slot : Passed(s) /\ connState[s] # "none" => MayStay(s)
    /\ workerPc \in {"none", "base", "pair", "ended"} =>
          \A s \in Slot : connState[s] # "none" => MayStay(s)

LifeInv == LifeTypeOK /\ HasInv /\ StopInv /\ QueueInv /\ PoolInv /\ CleanInv
-----------------------------------------------------------------------------
(* Slots and connections.                                                  *)

\* A slot is an index below the limit of its side.
LEMMA SlotFacts ==
  /\ \A k \in Kind : \A i \in 1..MaxConn(k) : <<k, i>> \in Slot
  /\ \A s \in Slot : s[1] \in Kind /\ s[2] \in 1..MaxConn(s[1]) /\ s = <<s[1], s[2]>>
  /\ NoVisit \notin Slot
  /\ \A k \in Kind : MaxConn(k) \in Nat /\ MaxConn(k) > 1
BY LifecycleAssumption DEF Slot, Kind, MaxConn, NoVisit

\* A new connection has a slot that a free index names.
LEMMA OpensFacts ==
  ASSUME LifeTypeOK, PoolInv, NEW k \in Kind, NEW st \in {"Connecting", "Connected"},
         Opens(k, st)
  PROVE  /\ connState' \in [Slot -> {"none", "Connecting", "Connected"}]
         /\ freeIndex' \in [Kind -> Seq(Nat)]
         /\ PoolInv'
         /\ <<k, PopIndex(freeIndex[k])>> \in Slot
         /\ \A s \in Slot : s # <<k, PopIndex(freeIndex[k])>> => connState'[s] = connState[s]
         /\ stale' = stale
<1>1. freeIndex[k] \in Seq(Nat) /\ IsPool(freeIndex[k], MaxConn(k)) /\ MaxConn(k) \in Nat
  BY SlotFacts DEF LifeTypeOK, PoolInv
<1>2. freeIndex[k] # <<>>
  BY DEF Opens, PopIndex
<1>3. /\ PopRest(freeIndex[k]) \in Seq(Nat)
      /\ IsPool(PopRest(freeIndex[k]), MaxConn(k))
      /\ PopIndex(freeIndex[k]) \in 1..MaxConn(k)
  BY <1>1, <1>2, PopPool
<1>4. /\ connState' = [connState EXCEPT ![<<k, PopIndex(freeIndex[k])>>] = st]
      /\ freeIndex' = [freeIndex EXCEPT ![k] = PopRest(freeIndex[k])]
      /\ stale' = stale
  BY DEF Opens
<1>5. <<k, PopIndex(freeIndex[k])>> \in Slot
  BY <1>3, SlotFacts
<1>6. freeIndex' \in [Kind -> Seq(Nat)] /\ PoolInv'
  BY <1>3, <1>4 DEF LifeTypeOK, PoolInv
<1>7. QED
  BY <1>4, <1>5, <1>6 DEF LifeTypeOK

\* A connection that is closed leaves its slot empty and the others alone.
LEMMA ClosesFacts ==
  ASSUME LifeTypeOK, PoolInv, NEW s \in Slot, Closes(s)
  PROVE  /\ connState' \in [Slot -> {"none", "Connecting", "Connected"}]
         /\ freeIndex' \in [Kind -> Seq(Nat)]
         /\ PoolInv'
         /\ connState'[s] = "none"
         /\ \A r \in Slot \ {s} : connState'[r] = connState[r] /\ (r \in late => r \in late')
         /\ late' \subseteq Slot /\ stale' = stale
<1> DEFINE k == s[1]
           i == s[2]
           q == PushIndex(freeIndex[k], MaxConn(k), i)
<1>1. /\ k \in Kind /\ i \in Nat /\ MaxConn(k) \in Nat
      /\ freeIndex[k] \in Seq(Nat) /\ IsPool(freeIndex[k], MaxConn(k))
  BY SlotFacts DEF LifeTypeOK, PoolInv
<1>2. /\ connState' = [connState EXCEPT ![s] = "none"]
      /\ freeIndex' = [freeIndex EXCEPT ![k] = q]
      /\ late' = late \ {s} /\ stale' = stale
  BY DEF Closes
<1> HIDE DEF k, i
<1>3. q \in Seq(Nat) /\ IsPool(q, MaxConn(k))
  BY <1>1, PushPool
<1> HIDE DEF q
<1>4. freeIndex' \in [Kind -> Seq(Nat)] /\ PoolInv'
  BY <1>1, <1>2, <1>3 DEF LifeTypeOK, PoolInv
<1>5. QED
  BY <1>2, <1>4 DEF LifeTypeOK

\* The cleanup goes from one slot to the next, and passes by the last index.
LEMMA AfterVisitFacts ==
  ASSUME LifeTypeOK, CleanInv, visit # NoVisit, visit' = AfterVisit(visit)
  PROVE  /\ visit' \in Slot \cup {NoVisit}
         /\ visit' # NoVisit => visit'[2] < MaxConn(visit'[1])
         /\ \A s \in Slot : Passed(s)' => Passed(s) \/ s = visit \/ s[2] = MaxConn(s[1])
<1>1. /\ visit[1] \in Kind /\ visit[2] \in Nat /\ visit[2] < MaxConn(visit[1])
      /\ visit \in Slot
      /\ visit = <<visit[1], visit[2]>> /\ visit[2] > 0 /\ MaxConn(visit[1]) \in Nat
  BY SlotFacts DEF CleanInv
<1>2. CASE visit[2] < MaxConn(visit[1]) - 1
  <2>1. visit' = <<visit[1], visit[2] + 1>>
    BY <1>2 DEF AfterVisit
  <2>2. visit' \in Slot /\ visit'[2] < MaxConn(visit'[1])
    BY <1>1, <1>2, <2>1, SlotFacts
  <2>3. visit' # NoVisit
    BY <2>2, SlotFacts
  <2>4. ASSUME NEW s \in Slot, Passed(s)'
        PROVE  Passed(s) \/ s = visit
    <3>1. s = <<s[1], s[2]>> /\ s[2] \in Nat
      BY SlotFacts
    <3>2. QED
      BY <1>1, <2>1, <2>3, <2>4, <3>1 DEF Passed
  <2>5. QED
    BY <2>2, <2>4
<1>3. CASE ~(visit[2] < MaxConn(visit[1]) - 1) /\ visit[1] = "user"
  <2>1. visit' = <<"server", 1>>
    BY <1>3 DEF AfterVisit
  <2>2. visit' \in Slot /\ visit'[2] < MaxConn(visit'[1]) /\ visit' # NoVisit
    BY <2>1, SlotFacts DEF Kind, NoVisit
  <2>3. ASSUME NEW s \in Slot, Passed(s)'
        PROVE  Passed(s) \/ s = visit \/ s[2] = MaxConn(s[1])
    <3>1. s = <<s[1], s[2]>> /\ s[2] \in 1..MaxConn(s[1])
      BY SlotFacts
    <3>2. s[1] = "user"
      BY <2>1, <2>2, <2>3, <3>1 DEF Passed
    <3>3. s[2] < visit[2] \/ s[2] = visit[2] \/ s[2] = MaxConn(s[1])
      BY <1>1, <1>3, <3>1, <3>2
    <3>4. QED
      BY <1>1, <1>3, <3>1, <3>2, <3>3 DEF Passed
  <2>4. QED
    BY <2>2, <2>3
<1>4. CASE ~(visit[2] < MaxConn(visit[1]) - 1) /\ visit[1] # "user"
  <2>1. visit' = NoVisit /\ visit[1] = "server"
    BY <1>1, <1>4 DEF AfterVisit, Kind
  <2>2. ASSUME NEW s \in Slot
        PROVE  Passed(s) \/ s = visit \/ s[2] = MaxConn(s[1])
    <3>1. s = <<s[1], s[2]>> /\ s[2] \in 1..MaxConn(s[1]) /\ s[1] \in {"user", "server"}
      BY SlotFacts DEF Kind
    <3>2. s[1] = "server" => s[2] < visit[2] \/ s[2] = visit[2] \/ s[2] = MaxConn(s[1])
      BY <1>1, <1>4, <2>1, <3>1
    <3>3. QED
      BY <1>1, <2>1, <3>1, <3>2 DEF Passed
  <2>3. QED
    BY <2>1, <2>2
<1>5. QED
  BY <1>2, <1>3, <1>4
-----------------------------------------------------------------------------
(* The steps.                                                              *)

\* A step that leaves connections and the cleanup alone.
LEMMA ConnSame ==
    /\ LifeInv
    /\ UNCHANGED connVars /\ UNCHANGED visit
    /\ workerPc' = "callback" => workerPc = "callback"
    /\ workerPc' = "freeing" => workerPc = "freeing"
    /\ workerPc' \in {"closing", "callback", "freeing"} => workerPc' = workerPc
    /\ workerPc' \in {"none", "base", "pair", "ended"} =>
          workerPc \in {"none", "base", "pair", "ended"}
    => PoolInv' /\ CleanInv'
BY DEF LifeInv, LifeTypeOK, PoolInv, CleanInv, connVars, Passed, MayStay

\* The calls of the threads.
LEMMA ThreadStep ==
  ASSUME LifeInv, NEW t \in Threads,
         Writes(t) \/ Awake(t) \/ StopChecks(t) \/ StopBreaks(t)
  PROVE  LifeInv'
<1>1. UNCHANGED connVars /\ UNCHANGED visit /\ UNCHANGED workerPc
  BY DEF Writes, Awake, StopChecks, StopBreaks
<1>2. PoolInv' /\ CleanInv'
  BY <1>1, ConnSame
<1>3. CASE Writes(t)
  BY <1>2, <1>3 DEF Writes, LifeInv, LifeTypeOK, HasInv, StopInv, QueueInv, setVars, connVars
<1>4. CASE Awake(t)
  BY <1>2, <1>4
  DEF Awake, Awakens, LifeInv, LifeTypeOK, HasInv, StopInv, QueueInv, setVars, connVars
<1>5. CASE StopChecks(t)
  <2>1. LifeTypeOK' /\ HasInv' /\ QueueInv'
    BY <1>5 DEF StopChecks, LifeInv, LifeTypeOK, HasInv, QueueInv, setVars, connVars
  <2>2. StopInv'
    BY <1>5 DEF StopChecks, StopAlone, LifeInv, LifeTypeOK, StopInv, setVars
  <2>3. QED
    BY <1>2, <2>1, <2>2 DEF LifeInv
<1>6. CASE StopBreaks(t)
  BY <1>2, <1>6 DEF StopBreaks, LifeInv, LifeTypeOK, HasInv, StopInv, QueueInv, connVars
<1>7. QED
  BY <1>3, <1>4, <1>5, <1>6

\* The worker on its way to the loop, and Start.
LEMMA StartStep ==
  ASSUME LifeInv, Start \/ WorkerStarts
  PROVE  LifeInv'
<1>1. CASE Start
  <2>1. LifeTypeOK' /\ HasInv' /\ StopInv' /\ QueueInv'
    BY <1>1 DEF Start, LifeInv, LifeTypeOK, HasInv, StopInv, QueueInv, setVars, queueVars
  <2>2. PoolInv' /\ CleanInv'
    BY <1>1 DEF Start, LifeInv, PoolInv, CleanInv, MayStay
  <2>3. QED
    BY <2>1, <2>2 DEF LifeInv
<1>2. CASE CreateBase
  <2>1. PoolInv' /\ CleanInv'
    BY <1>2, ConnSame DEF CreateBase
  <2>2. QED
    BY <1>2, <2>1
    DEF CreateBase, LifeInv, LifeTypeOK, HasInv, StopInv, QueueInv, queueVars, connVars
<1>3. CASE CreatePair
  <2>1. PoolInv' /\ CleanInv'
    BY <1>3, ConnSame DEF CreatePair
  <2>2. QED
    BY <1>3, <2>1 DEF CreatePair, LifeInv, LifeTypeOK, HasInv, StopInv, QueueInv, connVars
<1>4. CASE Listen
  <2>1. PoolInv' /\ CleanInv'
    BY <1>4, ConnSame DEF Listen
  <2>2. QED
    BY <1>4, <2>1
    DEF Listen, LifeInv, LifeTypeOK, HasInv, StopInv, QueueInv, setVars, queueVars, connVars
<1>5. CASE BecomesRunning
  <2>1. PoolInv' /\ CleanInv'
    BY <1>5, ConnSame DEF BecomesRunning
  <2>2. QED
    BY <1>5, <2>1
    DEF BecomesRunning, LifeInv, LifeTypeOK, HasInv, StopInv, QueueInv, queueVars, connVars
<1>6. CASE EnterLoop
  <2>1. PoolInv' /\ CleanInv'
    BY <1>6, ConnSame DEF EnterLoop
  <2>2. QED
    BY <1>6, <2>1
    DEF EnterLoop, LifeInv, LifeTypeOK, HasInv, StopInv, QueueInv, queueVars, connVars
<1>7. QED
  BY <1>1, <1>2, <1>3, <1>4, <1>5, <1>6 DEF WorkerStarts

\* What happens in the loop, and its end.
LEMMA LoopStep ==
  ASSUME LifeInv, Serve \/ ConnEvent \/ StopInCallback \/ LeaveLoop
  PROVE  LifeInv'
<1>1. CASE Serve
  <2>1. PoolInv' /\ CleanInv'
    BY <1>1, ConnSame DEF Serve
  <2>2. LifeTypeOK'
    BY <1>1 DEF Serve, LifeInv, LifeTypeOK, setVars, connVars
  <2>3. QueueInv'
    BY <1>1 DEF Serve, QueueInv
  <2>4. HasInv' /\ StopInv'
    BY <1>1 DEF Serve, LifeInv, HasInv, StopInv, setVars
  <2>5. QED
    BY <2>1, <2>2, <2>3, <2>4 DEF LifeInv
<1>2. CASE ConnEvent
  <2>1. workerPc = "loop" /\ UNCHANGED <<setVars, workerPc, queueVars, visit, lives>>
    BY <1>2 DEF ConnEvent, InLoop
  <2>2. /\ connState' \in [Slot -> {"none", "Connecting", "Connected"}]
        /\ freeIndex' \in [Kind -> Seq(Nat)]
        /\ PoolInv'
        /\ late' \subseteq Slot /\ stale' = stale
    <3>1. CASE Opens("user", "Connected") /\ UNCHANGED late
      BY <3>1, OpensFacts DEF LifeInv, LifeTypeOK, Kind
    <3>2. CASE Opens("server", "Connecting") /\ UNCHANGED late
      BY <3>2, OpensFacts DEF LifeInv, LifeTypeOK, Kind
    <3>3. CASE \E s \in Slot \ stale :
                  /\ connState[s] = "Connecting"
                  /\ connState' = [connState EXCEPT ![s] = "Connected"]
                  /\ UNCHANGED <<freeIndex, late, stale>>
      BY <3>3 DEF LifeInv, LifeTypeOK, PoolInv
    <3>4. CASE \E s \in Slot \ stale : connState[s] # "none" /\ Closes(s)
      BY <3>4, ClosesFacts DEF LifeInv
    <3>5. QED
      BY <1>2, <3>1, <3>2, <3>3, <3>4 DEF ConnEvent
  <2>3. LifeTypeOK'
    BY <2>1, <2>2 DEF LifeInv, LifeTypeOK, setVars, queueVars
  <2>4. HasInv' /\ StopInv' /\ QueueInv' /\ CleanInv'
    BY <2>1 DEF LifeInv, HasInv, StopInv, QueueInv, CleanInv, setVars, queueVars
  <2>5. QED
    BY <2>2, <2>3, <2>4 DEF LifeInv
<1>3. CASE StopInCallback
  <2>1. PoolInv' /\ CleanInv'
    BY <1>3, ConnSame DEF StopInCallback
  <2>2. QED
    BY <1>3, <2>1
    DEF StopInCallback, StopAlone, LifeInv, LifeTypeOK, HasInv, StopInv, QueueInv,
        queueVars, connVars
<1>4. CASE LeaveLoop
  <2>1. <<"user", 1>> \in Slot /\ 1 < MaxConn("user")
    BY SlotFacts DEF Kind
  <2>2. LifeTypeOK' /\ HasInv' /\ StopInv' /\ QueueInv' /\ PoolInv'
    BY <1>4, <2>1
    DEF LeaveLoop, LifeInv, LifeTypeOK, HasInv, StopInv, QueueInv, PoolInv, queueVars, connVars
  <2>3. visit' = <<"user", 1>> /\ workerPc' = "closing"
    BY <1>4 DEF LeaveLoop
  <2>4. visit' # NoVisit
    BY <2>1, <2>3, SlotFacts
  <2>5. \A s \in Slot : ~Passed(s)'
    BY <2>3, <2>4, SlotFacts DEF Passed
  <2>6. CleanInv'
    BY <2>1, <2>3, <2>5 DEF CleanInv
  <2>7. QED
    BY <2>2, <2>6 DEF LifeInv
<1>5. QED
  BY <1>1, <1>2, <1>3, <1>4

\* The cleanup, and what the application does in its callbacks.
LEMMA CleanupStep ==
  ASSUME LifeInv, VisitNext \/ CallbackReturns \/ CallbackPosts \/ CallbackConnects
  PROVE  LifeInv'
<1>1. CASE VisitNext /\ connState[visit] = "none"
  <2>1. /\ workerPc = "closing" /\ workerPc' = workerPc /\ visit # NoVisit
        /\ visit' = AfterVisit(visit)
        /\ UNCHANGED connVars /\ UNCHANGED setVars /\ UNCHANGED queueVars /\ UNCHANGED lives
    BY <1>1 DEF VisitNext
  <2>2. /\ visit' \in Slot \cup {NoVisit}
        /\ visit' # NoVisit => visit'[2] < MaxConn(visit'[1])
        /\ \A s \in Slot : Passed(s)' => Passed(s) \/ s = visit \/ s[2] = MaxConn(s[1])
    BY <2>1, AfterVisitFacts DEF LifeInv
  <2>3. LifeTypeOK' /\ HasInv' /\ StopInv' /\ QueueInv' /\ PoolInv'
    BY <2>1, <2>2
    DEF LifeInv, LifeTypeOK, HasInv, StopInv, QueueInv, PoolInv, setVars, queueVars, connVars
  <2>4. CleanInv'
    BY <1>1, <2>1, <2>2 DEF LifeInv, CleanInv, MayStay, connVars
  <2>5. QED
    BY <2>3, <2>4 DEF LifeInv
<1>2. CASE \/ VisitNext /\ connState[visit] = "Connecting"
           \/ CallbackReturns
  <2>1. /\ workerPc \in {"closing", "callback"} /\ workerPc' = "closing" /\ visit # NoVisit
        /\ visit \in Slot
        /\ Closes(visit) /\ visit' = AfterVisit(visit)
        /\ UNCHANGED setVars /\ UNCHANGED queueVars /\ UNCHANGED lives
    BY <1>2 DEF VisitNext, CallbackReturns, LifeInv, CleanInv
  <2>2. /\ visit' \in Slot \cup {NoVisit}
        /\ visit' # NoVisit => visit'[2] < MaxConn(visit'[1])
        /\ \A s \in Slot : Passed(s)' => Passed(s) \/ s = visit \/ s[2] = MaxConn(s[1])
    BY <2>1, AfterVisitFacts DEF LifeInv
  <2>3. /\ connState' \in [Slot -> {"none", "Connecting", "Connected"}]
        /\ freeIndex' \in [Kind -> Seq(Nat)]
        /\ PoolInv'
        /\ connState'[visit] = "none"
        /\ \A r \in Slot \ {visit} : connState'[r] = connState[r] /\ (r \in late => r \in late')
        /\ late' \subseteq Slot /\ stale' = stale
    BY <2>1, ClosesFacts DEF LifeInv
  <2>4. LifeTypeOK' /\ HasInv' /\ StopInv' /\ QueueInv'
    BY <2>1, <2>2, <2>3
    DEF LifeInv, LifeTypeOK, HasInv, StopInv, QueueInv, setVars, queueVars
  <2>5. CleanInv'
    BY <2>1, <2>2, <2>3 DEF LifeInv, CleanInv, MayStay
  <2>6. QED
    BY <2>3, <2>4, <2>5 DEF LifeInv
<1>3. CASE VisitNext /\ connState[visit] = "Connected"
  <2>1. /\ workerPc = "closing" /\ workerPc' = "callback" /\ visit # NoVisit
        /\ UNCHANGED connVars /\ UNCHANGED visit
        /\ UNCHANGED setVars /\ UNCHANGED queueVars /\ UNCHANGED lives
    BY <1>3 DEF VisitNext
  <2>2. LifeTypeOK' /\ HasInv' /\ StopInv' /\ QueueInv' /\ PoolInv'
    BY <2>1
    DEF LifeInv, LifeTypeOK, HasInv, StopInv, QueueInv, PoolInv, setVars, queueVars, connVars
  <2>3. CleanInv'
    BY <2>1 DEF LifeInv, CleanInv, Passed, MayStay, connVars
  <2>4. QED
    BY <2>2, <2>3 DEF LifeInv
<1>4. CASE CallbackPosts
  <2>1. PoolInv' /\ CleanInv'
    BY <1>4, ConnSame DEF CallbackPosts
  <2>2. LifeTypeOK'
    BY <1>4 DEF CallbackPosts, Awakens, LifeInv, LifeTypeOK, setVars, connVars
  <2>3. HasInv' /\ StopInv'
    BY <1>4 DEF CallbackPosts, LifeInv, HasInv, StopInv, setVars
  <2>4. QueueInv'
    BY <1>4 DEF CallbackPosts, Awakens, LifeInv, LifeTypeOK, HasInv, QueueInv, setVars
  <2>5. QED
    BY <2>1, <2>2, <2>3, <2>4 DEF LifeInv
<1>5. CASE CallbackConnects
  <2> DEFINE n == <<"server", PopIndex(freeIndex["server"])>>
  <2>1. /\ workerPc = "callback" /\ Opens("server", "Connecting") /\ late' = late \cup {n}
        /\ UNCHANGED workerPc /\ UNCHANGED visit
        /\ UNCHANGED setVars /\ UNCHANGED queueVars /\ UNCHANGED lives
    BY <1>5 DEF CallbackConnects
  <2>2. /\ connState' \in [Slot -> {"none", "Connecting", "Connected"}]
        /\ freeIndex' \in [Kind -> Seq(Nat)]
        /\ PoolInv'
        /\ n \in Slot
        /\ \A s \in Slot : s # n => connState'[s] = connState[s]
        /\ stale' = stale
    BY <2>1, OpensFacts DEF LifeInv, Kind
  <2> HIDE DEF n
  <2>3. LifeTypeOK' /\ HasInv' /\ StopInv' /\ QueueInv'
    BY <2>1, <2>2
    DEF LifeInv, LifeTypeOK, HasInv, StopInv, QueueInv, setVars, queueVars
  <2>4. CleanInv'
    BY <2>1, <2>2 DEF LifeInv, CleanInv, Passed, MayStay
  <2>5. QED
    BY <2>2, <2>3, <2>4 DEF LifeInv
<1>6. QED
  BY <1>1, <1>2, <1>3, <1>4, <1>5 DEF VisitNext

\* The worker frees the pair and the base.
LEMMA FreeStep ==
  ASSUME LifeInv, FreePair \/ FreeBase
  PROVE  LifeInv'
<1>1. CASE FreePair
  <2>1. LifeTypeOK' /\ HasInv' /\ StopInv' /\ QueueInv' /\ PoolInv'
    BY <1>1
    DEF FreePair, LifeInv, LifeTypeOK, HasInv, StopInv, QueueInv, PoolInv, connVars
  <2>2. CleanInv'
    BY <1>1 DEF FreePair, LifeInv, CleanInv, Passed, MayStay, connVars
  <2>3. QED
    BY <2>1, <2>2 DEF LifeInv
<1>2. CASE FreeBase
  <2>1. LifeTypeOK' /\ HasInv' /\ StopInv' /\ QueueInv' /\ PoolInv'
    BY <1>2
    DEF FreeBase, LifeInv, LifeTypeOK, HasInv, StopInv, QueueInv, PoolInv, queueVars
  <2>2. CleanInv'
    BY <1>2 DEF FreeBase, LifeInv, CleanInv, Passed, MayStay
  <2>3. QED
    BY <2>1, <2>2 DEF LifeInv
<1>3. QED
  BY <1>1, <1>2
-----------------------------------------------------------------------------
\* Before the first Start.
LEMMA LifeStarts == LifeInit => LifeInv
<1> SUFFICES ASSUME LifeInit PROVE LifeInv
  OBVIOUS
<1>1. freeIndex \in [Kind -> Seq(Nat)] /\ PoolInv
  BY FullPoolIsPool, SlotFacts DEF LifeInit, PoolInv
<1>2. LifeTypeOK
  BY <1>1 DEF LifeInit, LifeTypeOK
<1>3. HasInv /\ StopInv
  BY DEF LifeInit, HasInv, StopInv
<1>4. QueueInv
  BY DEF LifeInit, QueueInv
<1>5. CleanInv
  BY DEF LifeInit, CleanInv
<1>6. QED
  BY <1>1, <1>2, <1>3, <1>4, <1>5 DEF LifeInv

\* The inductive invariant of the worker's life holds through every start,
\* failed start, stop and start again.
THEOREM LifeInvariant == LifeSpec => []LifeInv
<1>1. ASSUME LifeInv, [LifeNext]_lifeVars
      PROVE  LifeInv'
  <2>1. CASE UNCHANGED lifeVars
    BY <1>1, <2>1
    DEF lifeVars, LifeInv, LifeTypeOK, HasInv, StopInv, QueueInv, PoolInv, CleanInv,
        Passed, MayStay
  <2>2. CASE LifeNext
    BY <1>1, <2>2, ThreadStep, StartStep, LoopStep, CleanupStep, FreeStep
    DEF LifeNext, WorkerEnds
  <2>3. QED
    BY <1>1, <2>1, <2>2
<1>2. QED
  BY LifeStarts, <1>1, PTL DEF LifeSpec

\* Every variable of the lifecycle keeps its type; the cleanup never looks
\* beyond the arrays.
THEOREM LifeTypeCorrect == LifeSpec => []LifeTypeOK
<1>1. LifeInv => LifeTypeOK
  BY DEF LifeInv
<1>2. QED
  BY LifeInvariant, <1>1, PTL

\* While the status says Running there are an event base and a socket pair.
THEOREM StatusIsTruthful == LifeSpec => []StatusTruthful
<1>1. LifeInv => StatusTruthful
  BY DEF LifeInv, HasInv, StopInv, StatusTruthful
<1>2. QED
  BY LifeInvariant, <1>1, PTL

\* The event base that Stop has found is still there when Stop uses it.
THEOREM StopHasItsBase == LifeSpec => []StopFindsBase
<1>1. LifeInv => StopFindsBase
  BY DEF LifeInv, HasInv, StopInv, StopFindsBase
<1>2. QED
  BY LifeInvariant, <1>1, PTL

\* The callbacks of the cleanup can still call the engine.
THEOREM CleanupCallsAreServed == LifeSpec => []CleanupCallsWork
<1>1. LifeInv => CleanupCallsWork
  BY DEF LifeInv, HasInv, CleanupCallsWork
<1>2. QED
  BY LifeInvariant, <1>1, PTL

\* An action is unseen in the loop only if its byte was lost with a socket
\* pair, or sent without one.
THEOREM OnlyTheUnheardWait == LifeSpec => []OnlyUnheardWaits
<1>1. LifeInv => OnlyUnheardWaits
  BY DEF LifeInv, QueueInv, OnlyUnheardWaits
<1>2. QED
  BY LifeInvariant, <1>1, PTL

\* The cleanup leaves behind at most the connections with the last indexes
\* and those that its own callbacks have made.
THEOREM CleanupCleans == LifeSpec => []LeftBehind
<1>1. LifeInv => LeftBehind
  BY DEF LifeInv, CleanInv, MayStay, LeftBehind
<1>2. QED
  BY LifeInvariant, <1>1, PTL
=============================================================================
