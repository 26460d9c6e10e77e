-------------------------------- MODULE TimerJobs --------------------------------
(***************************************************************************)
(* The timer jobs of SServerEngine.cpp: AddTimerJob, RemoveTimerJob and    *)
(* ClearTimerJob from any thread, processTimerJob in the worker whenever   *)
(* libevent's timer fires.  m_xTimerMutex is held in each of them, through *)
(* the callbacks of a pass too; it is recursive, so that a callback may    *)
(* add and remove jobs in the list that is being walked.                   *)
(*                                                                         *)
(* Precondition: a callback does not remove its own job, nor clear the     *)
(* list.  What follows if it does is undefined: processTimerJob writes to  *)
(* the deleted job and goes on from its erased list node.                  *)
(***************************************************************************)
EXTENDS Positions

CONSTANTS
    Ids,                    \* job ids; several jobs may have the same
    Intervals,              \* nTriggerIntervalMS of new jobs
    TickRange,              \* 2^32, what GetTickCount can tell apart
    Period,                 \* of the timer event, 5 ms
    StartTimes,             \* how long the machine may have been running
    MaxLate,                \* bound: how late libevent notices the timer
    Duration,               \* bound: how long the application runs
    MaxJobs,                \* bound: jobs in the list
    PerCallback,            \* bound: calls made during one callback
    Calls                   \* what other threads call

Never == -1

ASSUME TimerAssumption ==
    /\ Ids \subseteq Nat /\ Intervals \subseteq Nat
    /\ TickRange \in Nat \ {0} /\ Period \in Nat \ {0}
    /\ StartTimes \subseteq Nat
    /\ MaxLate \in Nat /\ Duration \in Nat /\ MaxJobs \in Nat /\ PerCallback \in Nat
    /\ Calls \subseteq {"Add", "Remove", "Clear"}

VARIABLES
    time,                   \* the time in ms, which GetTickCount wraps
    startTime,              \* auxiliary: the time at the beginning
    timerDue,               \* when libevent fires the timer next
    jobs,                   \* m_xTimerJobs
    timerPc,                \* where the worker is in processTimerJob
    cursor,                 \* iterB: which job the pass has come to
    nowTick,                \* nNowTick
    nowTime,                \* auxiliary: the time that nowTick was read
    running,                \* auxiliary: the id in callback, the calls made
    request                 \* what another thread is asking for

timerVars == <<time, startTime, timerDue, jobs, timerPc, cursor, nowTick, nowTime,
               running, request>>

\* An SServerTimerJob, and (auxiliary) when it was triggered last.
NewJob(id, interval) ==
    [nJobId |-> id, nTriggerIntervalMS |-> interval, nLastTriggerTime |-> 0,
     triggered |-> Never]

NoRequest == [op |-> "none", id |-> Never, interval |-> 0]
NoCallback == [id |-> Never, calls |-> 0, added |-> FALSE]

TimerInit ==
    /\ time \in StartTimes /\ startTime = time
    /\ timerDue = time + Period
    /\ jobs = <<>>
    /\ timerPc = "loop" /\ cursor = 0 /\ nowTick = 0 /\ nowTime = time
    /\ running = NoCallback
    /\ request = NoRequest

\* A millisecond passes, in the loop or in a callback.
Tick ==
    /\ time < startTime + Duration
    /\ time < timerDue + MaxLate
    /\ timerPc # "scan"
    /\ time' = time + 1
    /\ UNCHANGED <<startTime, timerDue, jobs, timerPc, cursor, nowTick, nowTime,
                   running, request>>
-----------------------------------------------------------------------------
(* The list.                                                               *)

Add(id, interval) == jobs' = Append(jobs, NewJob(id, interval))

\* The jobs that RemoveTimerJob leaves in the list, by position.
Left(id) == {i \in 1..Len(jobs) : jobs[i].nJobId # id}

\* Fault: the list is a vector, and the iterator keeps its place in it.
RemoveKeepsPlace(id) ==
    /\ jobs' = Picked(jobs, Left(id))
    /\ UNCHANGED cursor

\* Nodes before the cursor go, the cursor stays with its node.
Remove(id) ==
    /\ jobs' = Picked(jobs, Left(id))
    /\ cursor' = Rank(Left(id), cursor)
-----------------------------------------------------------------------------
(* Other threads.                                                          *)

CallTimer(op, id, interval) ==
    /\ request = NoRequest
    /\ op = "Add" => Len(jobs) < MaxJobs
    /\ request' = [op |-> op, id |-> id, interval |-> interval]
    /\ UNCHANGED <<time, startTime, timerDue, jobs, timerPc, cursor, nowTick, nowTime,
                   running>>

Answered ==
    /\ \/ request.op = "Add" /\ Add(request.id, request.interval) /\ UNCHANGED cursor
       \/ request.op = "Remove" /\ Remove(request.id)
       \/ request.op = "Clear" /\ jobs' = <<>> /\ UNCHANGED cursor
    /\ request' = NoRequest
    /\ UNCHANGED <<time, startTime, timerDue, timerPc, nowTick, nowTime, running>>

\* Fault: the mutex is let go for the time of a callback.
LockFreeAnswer == timerPc # "scan" /\ Answered

\* The mutex is free when no pass is on; each call is one step under it.
Answer == timerPc = "loop" /\ Answered
-----------------------------------------------------------------------------
(* processTimerJob.                                                        *)

\* Fault: the tick does not wrap.
GetTickCount64 == time

GetTickCount == time % TickRange

\* libevent's timer repeats itself: the next time comes within Period.
BeginTimerPass ==
    /\ timerPc = "loop" /\ time >= timerDue
    /\ timerDue' \in time + 1 .. time + Period
    /\ timerPc' = "scan"
    /\ cursor' = 1
    /\ nowTick' = GetTickCount
    /\ nowTime' = time
    /\ UNCHANGED <<time, startTime, jobs, running, request>>

\* Unsigned addition wraps.
Due(job) == nowTick > (job.nLastTriggerTime + job.nTriggerIntervalMS) % TickRange

AtJob == timerPc = "scan" /\ cursor <= Len(jobs)

PassOver ==
    /\ AtJob /\ ~Due(jobs[cursor])
    /\ cursor' = cursor + 1
    /\ UNCHANGED <<time, startTime, timerDue, jobs, timerPc, nowTick, nowTime,
                   running, request>>

Trigger ==
    /\ AtJob /\ Due(jobs[cursor])
    /\ jobs' = [jobs EXCEPT ![cursor].triggered = nowTime]
    /\ running' = [id |-> jobs[cursor].nJobId, calls |-> 0, added |-> FALSE]
    /\ timerPc' = "callback"
    /\ UNCHANGED <<time, startTime, timerDue, cursor, nowTick, nowTime, request>>

MayCallTimer == timerPc = "callback" /\ running.calls < PerCallback

CallbackAdds(id, interval) ==
    /\ MayCallTimer /\ Len(jobs) < MaxJobs
    /\ Add(id, interval)
    /\ running' = [running EXCEPT !.calls = @ + 1, !.added = TRUE]
    /\ UNCHANGED <<time, startTime, timerDue, timerPc, cursor, nowTick, nowTime, request>>

CallbackRemoves(id) ==
    /\ MayCallTimer /\ id # running.id
    /\ Remove(id)
    /\ running' = [running EXCEPT !.calls = @ + 1]
    /\ UNCHANGED <<time, startTime, timerDue, timerPc, nowTick, nowTime, request>>

\* Fault: the trigger is not recorded.
ReturnForgets ==
    /\ timerPc = "callback"
    /\ cursor' = cursor + 1
    /\ timerPc' = "scan"
    /\ running' = NoCallback
    /\ UNCHANGED <<time, startTime, timerDue, jobs, nowTick, nowTime, request>>

\* Fault: the trigger is recorded with the time at which the callback ends.
ReturnReadsTick ==
    /\ timerPc = "callback"
    /\ jobs' = [jobs EXCEPT ![cursor].nLastTriggerTime = GetTickCount]
    /\ cursor' = cursor + 1
    /\ timerPc' = "scan"
    /\ running' = NoCallback
    /\ UNCHANGED <<time, startTime, timerDue, nowTick, nowTime, request>>

CallbackReturns ==
    /\ timerPc = "callback"
    /\ jobs' = [jobs EXCEPT ![cursor].nLastTriggerTime = nowTick]
    /\ cursor' = cursor + 1
    /\ timerPc' = "scan"
    /\ running' = NoCallback
    /\ UNCHANGED <<time, startTime, timerDue, nowTick, nowTime, request>>

\* Fault: the pass is repeated until no job is due.
EndWhenNoneDue ==
    /\ timerPc = "scan" /\ cursor > Len(jobs)
    /\ LET again == \E i \in 1..Len(jobs) : Due(jobs[i])
       IN /\ timerPc' = IF again THEN "scan" ELSE "loop"
          /\ cursor' = IF again THEN 1 ELSE 0
    /\ UNCHANGED <<time, startTime, timerDue, jobs, nowTick, nowTime, running, request>>

EndTimerPass ==
    /\ timerPc = "scan" /\ cursor > Len(jobs)
    /\ timerPc' = "loop"
    /\ cursor' = 0
    /\ UNCHANGED <<time, startTime, timerDue, jobs, nowTick, nowTime, running, request>>

ProcessTimerJob == PassOver \/ Trigger \/ CallbackReturns \/ EndTimerPass

TimerNext ==
    \/ Tick
    \/ \E op \in Calls, id \in Ids, interval \in Intervals : CallTimer(op, id, interval)
    \/ Answer
    \/ BeginTimerPass \/ ProcessTimerJob
    \/ \E id \in Ids, interval \in Intervals : CallbackAdds(id, interval)
    \/ \E id \in Ids : CallbackRemoves(id)

TimerSpec == TimerInit /\ [][TimerNext]_timerVars

\* The worker keeps running, callbacks return, and the critical section does
\* not pass over the same waiter for ever.
TimerFairness == WF_timerVars(ProcessTimerJob) /\ SF_timerVars(Answer)

FairTimerSpec == TimerSpec /\ TimerFairness
-----------------------------------------------------------------------------
JobType == [nJobId : Ids, nTriggerIntervalMS : Intervals,
            nLastTriggerTime : 0..TickRange - 1, triggered : Nat \cup {Never}]

TimerTypeOK ==
    /\ time \in Nat /\ startTime \in Nat /\ timerDue \in Nat
    /\ jobs \in Seq(JobType)
    /\ timerPc \in {"loop", "scan", "callback"}
    /\ cursor \in Nat /\ nowTick \in 0..TickRange - 1 /\ nowTime \in Nat
    /\ running \in [id : Ids \cup {Never}, calls : Nat, added : BOOLEAN]
    /\ request \in [op : {"none", "Add", "Remove", "Clear"}, id : Ids \cup {Never},
                    interval : Nat]

\* The job whose callback is running is still there when processTimerJob
\* goes on with it, whatever other threads ask for meanwhile and whatever
\* other jobs the callback removes: the iterator points to that job, which
\* is in the list once.
CursorLive ==
    timerPc = "callback" =>
        /\ cursor \in 1..Len(jobs)
        /\ jobs[cursor].nJobId = running.id
        /\ jobs[cursor].triggered = nowTime

\* The sum of last trigger and interval wraps only near the end of the tick
\* range.
SumWraps(job) == job.nLastTriggerTime + job.nTriggerIntervalMS >= TickRange

\* A job is never triggered twice within its interval, nor twice in a pass
\* over a list that callbacks change, unless the sum wraps.
Spacing ==
    AtJob /\ Due(jobs[cursor]) /\ jobs[cursor].triggered # Never
    => SumWraps(jobs[cursor])
       \/ nowTime - jobs[cursor].triggered > jobs[cursor].nTriggerIntervalMS

\* A pass overlooks no job: whatever callbacks have added and removed, at its
\* end none is due, unless the sum wraps.
NoneOverlooked ==
    timerPc = "scan" /\ cursor > Len(jobs)
    => \A i \in 1..Len(jobs) : ~Due(jobs[i]) \/ SumWraps(jobs[i])

\* A job that has been triggered is triggered again in time, within a pass's
\* distance from the end of its interval, if the tick has not wrapped since.
Punctual ==
    \A i \in 1..Len(jobs) :
        LET job == jobs[i] IN
        job.triggered # Never =>
            \/ time \div TickRange # job.triggered \div TickRange
            \/ time - job.triggered <= job.nTriggerIntervalMS + 2 * (Period + MaxLate)

\* A thread that adds, removes or clears jobs gets out again, although it may
\* have to wait for a pass and its callbacks, unless callbacks add jobs for
\* ever: a new job is due at once, in the same pass.
TimerCallsReturn == <>[](request.op # "none") => []<>running.added

\* "timer timeout ?" (main.cpp:126): what the demonstration's onTimer checks,
\* with twice its interval as limit.
OnTime ==
    \A i \in 1..Len(jobs) :
        jobs[i].triggered # Never => time - jobs[i].triggered <= 2 * jobs[i].nTriggerIntervalMS
=============================================================================
