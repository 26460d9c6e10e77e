---------------------------- MODULE TimerJobs_proofs ----------------------------
(***************************************************************************)
(* Proofs about the timer jobs, for any number of jobs, whatever callbacks *)
(* and threads add and remove, and wherever the tick wraps.                *)
(***************************************************************************)
EXTENDS TimerJobs, Lists_proofs

\* The time between one pass and the next, at most.
PassDistance == Period + MaxLate

\* Has the tick not wrapped between a job's last trigger and the pass?
SameRound(job) == nowTime \div TickRange = job.triggered \div TickRange

\* What a trigger leaves in the job.
Recorded(job) ==
    job.triggered # Never =>
        /\ job.triggered <= nowTime
        /\ job.nLastTriggerTime = job.triggered % TickRange

\* A job that the pass has gone by, or that waits for the next one: it was
\* not due, or has been triggered.
PassedBy(job) ==
    /\ Recorded(job)
    /\ timerPc # "loop" => ~Due(job) \/ SumWraps(job)
    /\ job.triggered # Never /\ SameRound(job)
       => nowTime - job.triggered <= job.nTriggerIntervalMS

\* A job that the pass comes to yet: it was gone by in the pass before.
Ahead(job) ==
    /\ Recorded(job)
    /\ job.triggered # Never /\ SameRound(job)
       => nowTime - job.triggered <= job.nTriggerIntervalMS + PassDistance

JobsInv ==
    \A i \in 1..Len(jobs) :
        /\ timerPc = "loop" \/ i < cursor => PassedBy(jobs[i])
        /\ timerPc = "scan" /\ i >= cursor => Ahead(jobs[i])
        /\ timerPc = "callback" /\ i > cursor => Ahead(jobs[i])

\* The iterator is on a job or behind the last one, and on the job whose
\* callback runs.
PlaceInv ==
    /\ timerPc = "loop" => cursor = 0
    /\ timerPc # "loop" => cursor \in 1..Len(jobs) + 1
    /\ CursorLive

\* Passes follow each other within PassDistance.
TimeInv ==
    /\ nowTime <= time /\ time <= timerDue + MaxLate
    /\ timerDue <= nowTime + Period
    /\ timerPc # "loop" => nowTick = nowTime % TickRange

\* A request has arguments.
RequestInv ==
    request.op # "none" => request.id \in Ids /\ request.interval \in Intervals

\* The inductive invariant.  The properties speak of a job when it is due;
\* JobsInv says what is true of it before, depending on whether the pass has
\* gone by it, and PlaceInv which of the two it is after the list has changed.
TimerInv == TimerTypeOK /\ RequestInv /\ TimeInv /\ PlaceInv /\ JobsInv
-----------------------------------------------------------------------------
(* Ticks.                                                                  *)

\* Multiples of the tick range are a tick range apart.
LEMMA Multiples ==
  ASSUME NEW a \in Int, NEW b \in Int, a < b
  PROVE  a * TickRange + TickRange <= b * TickRange
<1>1. TickRange \in Nat /\ a + 1 <= b
  BY TimerAssumption
<1>2. (a + 1) * TickRange <= b * TickRange
  BY <1>1
<1>3. QED
  BY <1>1, <1>2

\* A time is its round and its tick.
LEMMA RoundAndTick ==
  ASSUME NEW n \in Nat
  PROVE  /\ n \div TickRange \in Nat /\ n % TickRange \in 0..TickRange - 1
         /\ n = (n \div TickRange) * TickRange + (n % TickRange)
BY TimerAssumption

\* Of two times the later one is in the same round or in a later one.
LEMMA RoundMonotone ==
  ASSUME NEW m \in Nat, NEW n \in Nat, m <= n
  PROVE  m \div TickRange <= n \div TickRange
<1>1. TickRange \in Nat
  BY TimerAssumption
<1>2. SUFFICES ASSUME n \div TickRange < m \div TickRange PROVE FALSE
  BY RoundAndTick
<1>3. (n \div TickRange) * TickRange + TickRange <= (m \div TickRange) * TickRange
  BY <1>2, RoundAndTick, Multiples
<1>4. QED
  BY <1>1, <1>3, RoundAndTick

\* In one round ticks differ as the times do, and from one round to a later
\* one the times differ by more.
LEMMA TickDifference ==
  ASSUME NEW m \in Nat, NEW n \in Nat, m <= n
  PROVE  /\ (n % TickRange) - (m % TickRange) <= n - m
         /\ n \div TickRange = m \div TickRange => n - m = (n % TickRange) - (m % TickRange)
<1> DEFINE a == m \div TickRange
           b == n \div TickRange
<1>1. a \in Nat /\ b \in Nat /\ a <= b
  BY RoundAndTick, RoundMonotone
<1>2. a * TickRange <= b * TickRange
  BY <1>1, TimerAssumption
<1>3. m = a * TickRange + (m % TickRange) /\ n = b * TickRange + (n % TickRange)
  BY RoundAndTick
<1>4. a * TickRange \in Int /\ b * TickRange \in Int /\ m % TickRange \in Int /\ n % TickRange \in Int
  BY <1>1, TimerAssumption, RoundAndTick
<1>5. QED
  BY <1>2, <1>3, <1>4

\* What is left of a number is no more than the number, and less only if it
\* wraps.
LEMMA Remainder ==
  ASSUME NEW n \in Nat
  PROVE  n % TickRange <= n /\ (n < TickRange => n % TickRange = n)
BY TimerAssumption
-----------------------------------------------------------------------------
(* Jobs.                                                                   *)

\* What arithmetic needs to know of the constants and variables.
LEMMA TimerNumbers ==
  ASSUME TimerTypeOK
  PROVE  /\ time \in Nat /\ timerDue \in Nat /\ nowTime \in Nat /\ nowTick \in Nat
         /\ cursor \in Nat /\ Len(jobs) \in Nat
         /\ Period \in Nat /\ MaxLate \in Nat /\ PassDistance \in Nat
BY TimerAssumption DEF TimerTypeOK, PassDistance

\* A job's fields.
LEMMA JobFields ==
  ASSUME NEW job \in JobType
  PROVE  /\ job.nJobId \in Ids /\ job.nTriggerIntervalMS \in Intervals
         /\ job.nTriggerIntervalMS \in Nat /\ job.nLastTriggerTime \in Nat
         /\ job.triggered \in Nat \cup {Never}
         /\ job.nLastTriggerTime + job.nTriggerIntervalMS \in Nat
<1>1. /\ job.nJobId \in Ids /\ job.nTriggerIntervalMS \in Intervals
      /\ job.nLastTriggerTime \in 0..TickRange - 1
      /\ job.triggered \in Nat \cup {Never}
  BY DEF JobType
<1>2. job.nTriggerIntervalMS \in Nat
  BY <1>1, TimerAssumption
<1>3. job.nLastTriggerTime \in Nat
  <2>1. \A n \in 0..TickRange - 1 : n \in Nat
    BY TimerAssumption
  <2>2. QED
    BY <1>1, <2>1
<1>4. QED
  BY <1>1, <1>2, <1>3

\* A job is new, untouched by any pass.
LEMMA NewJobFacts ==
  ASSUME NEW id \in Ids, NEW interval \in Intervals
  PROVE  /\ NewJob(id, interval) \in JobType
         /\ NewJob(id, interval).triggered = Never
BY TimerAssumption DEF NewJob, JobType, Never

\* It is recorded that it was never triggered.
LEMMA NeverTriggered ==
  ASSUME NEW job, job.triggered = Never
  PROVE  Ahead(job) /\ (timerPc = "loop" => PassedBy(job))
BY DEF Ahead, PassedBy, Recorded

\* A job that is not due when the pass comes to it has been triggered within
\* its interval, if the tick has not wrapped since.
LEMMA NotDueYet ==
  ASSUME TimerTypeOK, TimeInv, timerPc = "scan",
         NEW job \in JobType, Ahead(job), ~Due(job)
  PROVE  PassedBy(job)
<1> DEFINE last == job.nLastTriggerTime
           sum == job.nLastTriggerTime + job.nTriggerIntervalMS
<1>1. /\ last \in Nat /\ job.nTriggerIntervalMS \in Nat /\ sum \in Nat
      /\ job.triggered \in Nat \cup {Never}
  BY JobFields
<1>2. nowTick \in Nat /\ nowTime \in Nat /\ nowTick = nowTime % TickRange
  BY TimerNumbers DEF TimeInv
<1>3. nowTick <= sum
  <2>1. sum % TickRange <= sum /\ sum % TickRange \in Nat
    BY <1>1, Remainder, RoundAndTick
  <2>2. ~(nowTick > sum % TickRange)
    BY DEF Due
  <2>3. QED
    BY <1>1, <1>2, <2>1, <2>2
<1>4. ASSUME job.triggered # Never, SameRound(job)
      PROVE  nowTime - job.triggered <= job.nTriggerIntervalMS
  <2>1. job.triggered \in Nat /\ job.triggered <= nowTime /\ last = job.triggered % TickRange
    BY <1>1, <1>4 DEF Ahead, Recorded
  <2>2. nowTime - job.triggered = nowTick - last
    BY <1>2, <1>4, <2>1, TickDifference DEF SameRound
  <2>3. QED
    BY <1>1, <1>2, <1>3, <2>2
<1>5. QED
  BY <1>4 DEF PassedBy, Ahead

\* A job that is due, although it has been triggered, has waited for more
\* than its interval, unless the sum wraps.
LEMMA DueLate ==
  ASSUME TimerTypeOK, TimeInv, timerPc = "scan",
         NEW job \in JobType, Recorded(job), Due(job), job.triggered # Never, ~SumWraps(job)
  PROVE  nowTime - job.triggered > job.nTriggerIntervalMS
<1> DEFINE last == job.nLastTriggerTime
           sum == job.nLastTriggerTime + job.nTriggerIntervalMS
<1>1. /\ last \in Nat /\ job.nTriggerIntervalMS \in Nat /\ sum \in Nat
      /\ job.triggered \in Nat
  BY JobFields
<1>2. nowTick \in Nat /\ nowTime \in Nat /\ nowTick = nowTime % TickRange
  BY TimerNumbers DEF TimeInv
<1>3. nowTick > sum
  <2>1. sum < TickRange
    BY <1>1, TimerAssumption DEF SumWraps
  <2>2. sum % TickRange = sum
    BY <1>1, <2>1, Remainder
  <2>3. QED
    BY <2>2 DEF Due
<1>4. job.triggered <= nowTime /\ last = job.triggered % TickRange
  BY DEF Recorded
<1>5. nowTick - last <= nowTime - job.triggered
  BY <1>1, <1>2, <1>4, TickDifference
<1>6. QED
  BY <1>1, <1>2, <1>3, <1>5

\* A job that has just been triggered, when its callback is back.
LEMMA JustTriggered ==
  ASSUME TimerTypeOK, TimeInv, timerPc = "callback",
         NEW job \in JobType, job.triggered = nowTime, job.nLastTriggerTime = nowTick
  PROVE  Recorded(job) /\ (~Due(job) \/ SumWraps(job))
         /\ nowTime - job.triggered <= job.nTriggerIntervalMS
<1> DEFINE sum == job.nLastTriggerTime + job.nTriggerIntervalMS
<1>1. nowTick \in Nat /\ nowTime \in Nat /\ nowTick = nowTime % TickRange
  BY TimerNumbers DEF TimeInv
<1>2. job.nTriggerIntervalMS \in Nat /\ sum \in Nat /\ sum >= nowTick
  BY <1>1, JobFields
<1>3. Recorded(job)
  BY <1>1 DEF Recorded
<1>4. ASSUME ~SumWraps(job) PROVE ~Due(job)
  <2>1. sum < TickRange
    BY <1>2, <1>4, TimerAssumption DEF SumWraps
  <2>2. sum % TickRange = sum
    BY <1>2, <2>1, Remainder
  <2>3. QED
    BY <1>1, <1>2, <2>2 DEF Due
<1>5. QED
  BY <1>1, <1>2, <1>3, <1>4
-----------------------------------------------------------------------------
(* Steps.                                                                  *)

\* A job in the list.
LEMMA JobInList ==
  ASSUME TimerTypeOK, NEW i \in 1..Len(jobs)
  PROVE  jobs[i] \in JobType
BY DEF TimerTypeOK

\* Nothing has happened to the jobs, nor to the pass.
LEMMA SameJobs ==
  ASSUME JobsInv, PlaceInv, UNCHANGED <<jobs, timerPc, cursor, nowTick, nowTime, running>>
  PROVE  JobsInv' /\ PlaceInv'
<1>1. PlaceInv'
  BY DEF PlaceInv, CursorLive
<1>2. JobsInv'
  BY DEF JobsInv, PassedBy, Ahead, Recorded, SameRound, Due, SumWraps
<1>3. QED
  BY <1>1, <1>2

\* AddTimerJob puts a job behind all others, where the pass comes last.
LEMMA AddKeeps ==
  ASSUME TimerInv, NEW id \in Ids, NEW interval \in Intervals, Add(id, interval),
         timerPc # "scan", UNCHANGED <<timerPc, cursor, nowTick, nowTime>>,
         running'.id = running.id
  PROVE  jobs' \in Seq(JobType) /\ PlaceInv' /\ JobsInv'
<1> DEFINE n == Len(jobs)
           new == NewJob(id, interval)
<1>1. jobs \in Seq(JobType) /\ n \in Nat /\ cursor \in Nat
  BY TimerNumbers DEF TimerInv, TimerTypeOK
<1>2. new \in JobType /\ new.triggered = Never
  BY NewJobFacts
<1>3. /\ jobs' \in Seq(JobType) /\ Len(jobs') = n + 1
      /\ \A i \in 1..n : jobs'[i] = jobs[i]
      /\ jobs'[n + 1] = new
  BY <1>1, <1>2 DEF Add
<1>4. PlaceInv'
  BY <1>1, <1>3 DEF TimerInv, PlaceInv, CursorLive
<1>5. JobsInv'
  <2>1. SUFFICES ASSUME NEW i \in 1..n + 1
                 PROVE  /\ timerPc = "loop" \/ i < cursor => PassedBy(jobs'[i])
                        /\ timerPc = "callback" /\ i > cursor => Ahead(jobs'[i])
    BY <1>3 DEF JobsInv, PassedBy, Ahead, Recorded, SameRound, Due, SumWraps
  <2>2. CASE i \in 1..n
    BY <1>3, <2>2 DEF TimerInv, JobsInv
  <2>3. CASE i = n + 1
    <3>1. Ahead(jobs'[i]) /\ (timerPc = "loop" => PassedBy(jobs'[i]))
      BY <1>2, <1>3, <2>3, NeverTriggered
    <3>2. timerPc = "callback" => ~(i < cursor)
      BY <1>1, <2>3 DEF TimerInv, PlaceInv, CursorLive
    <3>3. timerPc \in {"loop", "callback"}
      BY DEF TimerInv, TimerTypeOK
    <3>4. QED
      BY <3>1, <3>2, <3>3
  <2>4. QED
    BY <1>1, <2>2, <2>3
<1>6. QED
  BY <1>3, <1>4, <1>5

\* RemoveTimerJob: jobs stay on their side of the iterator, and the iterator
\* stays with the job whose callback runs, unless that one is removed.
LEMMA RemoveKeeps ==
  ASSUME TimerInv, NEW id, Remove(id), timerPc # "scan",
         timerPc = "callback" => id # running.id,
         UNCHANGED <<timerPc, nowTick, nowTime>>, running'.id = running.id
  PROVE  jobs' \in Seq(JobType) /\ cursor' \in Nat /\ PlaceInv' /\ JobsInv'
<1> DEFINE S == Left(id)
           n == Cardinality(S)
<1>1. /\ jobs \in Seq(JobType) /\ Len(jobs) \in Nat /\ cursor \in Nat
      /\ timerPc \in {"loop", "callback"}
  BY TimerNumbers DEF TimerInv, TimerTypeOK
<1>2. S \subseteq 1..Len(jobs)
  BY DEF Left
<1>3. S \subseteq Int /\ IsFiniteSet(S) /\ n \in Nat
  BY <1>1, <1>2, SequencePositions
<1>4. /\ jobs' \in Seq(JobType) /\ Len(jobs') = n
      /\ \A k \in 1..n : Position(S, k) \in S /\ jobs'[k] = jobs[Position(S, k)]
  BY <1>1, <1>2, PickedType DEF Remove
<1>5. cursor' = Rank(S, cursor) /\ cursor' \in Nat
  BY <1>3, RankType DEF Remove
<1>6. ASSUME NEW k \in 1..n
      PROVE  /\ k < cursor' => Position(S, k) < cursor
             /\ k > cursor' => Position(S, k) > cursor
  BY <1>1, <1>3, <1>5, PositionOrder
<1>7. CASE timerPc = "loop"
  <2>1. cursor = 0
    BY <1>7 DEF TimerInv, PlaceInv
  <2>2. cursor' = 0
    <3>1. {j \in S : j <= 0} = {}
      BY <1>1, <1>2
    <3>2. QED
      BY <1>5, <2>1, <3>1, FS_EmptySet DEF Rank
  <2>3. PlaceInv'
    BY <1>7, <2>2 DEF PlaceInv, CursorLive
  <2>4. ASSUME NEW k \in 1..n PROVE PassedBy(jobs'[k])
    BY <1>2, <1>4, <1>7 DEF TimerInv, JobsInv
  <2>5. JobsInv'
    BY <1>4, <1>7, <2>4 DEF JobsInv, PassedBy, Recorded, SameRound, Due, SumWraps
  <2>6. QED
    BY <1>4, <1>5, <2>3, <2>5
<1>8. CASE timerPc = "callback"
  <2>1. /\ cursor \in 1..Len(jobs) /\ jobs[cursor].nJobId = running.id
        /\ jobs[cursor].triggered = nowTime
    BY <1>8 DEF TimerInv, PlaceInv, CursorLive
  <2>2. cursor \in S
    BY <1>8, <2>1 DEF Left
  <2>3. cursor' \in 1..n /\ Position(S, cursor') = cursor
    BY <1>3, <1>5, <2>2, PositionOfRank
  <2>4. jobs'[cursor'] = jobs[cursor]
    BY <1>4, <2>3
  <2>5. PlaceInv'
    BY <1>3, <1>4, <1>8, <2>1, <2>3, <2>4 DEF PlaceInv, CursorLive
  <2>6. ASSUME NEW k \in 1..n
        PROVE  /\ k < cursor' => PassedBy(jobs'[k])
               /\ k > cursor' => Ahead(jobs'[k])
    BY <1>2, <1>4, <1>6, <1>8 DEF TimerInv, JobsInv
  <2>7. JobsInv'
    BY <1>4, <1>8, <2>6 DEF JobsInv, PassedBy, Ahead, Recorded, SameRound, Due, SumWraps
  <2>8. QED
    BY <1>4, <1>5, <2>5, <2>7
<1>9. QED
  BY <1>1, <1>7, <1>8

\* A pass begins: what was gone by is ahead again, and the time since the
\* last pass is bounded.
LEMMA BeginKeeps ==
  ASSUME TimerInv, BeginTimerPass
  PROVE  TimerInv'
<1>1. /\ TimerTypeOK /\ timerPc = "loop" /\ time >= timerDue
      /\ timerDue' \in time + 1 .. time + Period
      /\ timerPc' = "scan" /\ cursor' = 1 /\ nowTick' = GetTickCount /\ nowTime' = time
      /\ UNCHANGED <<time, startTime, jobs, running, request>>
  BY DEF TimerInv, BeginTimerPass
<1>2. /\ time \in Nat /\ timerDue \in Nat /\ nowTime \in Nat /\ Len(jobs) \in Nat
      /\ Period \in Nat /\ MaxLate \in Nat /\ PassDistance = Period + MaxLate
  BY <1>1, TimerNumbers DEF PassDistance
<1>3. /\ nowTime <= time /\ time - nowTime <= PassDistance
      /\ time + 1 <= timerDue' /\ timerDue' <= time + Period /\ timerDue' \in Nat
  BY <1>1, <1>2 DEF TimerInv, TimeInv
<1>4. nowTick' = time % TickRange /\ nowTick' \in 0..TickRange - 1
  BY <1>1, <1>2, RoundAndTick DEF GetTickCount
<1>5. TimerTypeOK' /\ RequestInv'
  BY <1>1, <1>2, <1>3, <1>4 DEF TimerInv, TimerTypeOK, RequestInv
<1>6. TimeInv'
  <2>1. \A due \in Nat : time + 1 <= due => time <= due + MaxLate
    BY <1>2
  <2>2. time <= timerDue' + MaxLate
    BY <1>3, <2>1
  <2>3. time <= time
    BY <1>2
  <2>4. QED
    BY <1>1, <1>3, <1>4, <2>2, <2>3 DEF TimeInv
<1>7. PlaceInv'
  BY <1>1, <1>2 DEF PlaceInv, CursorLive
<1>8. JobsInv'
  <2>1. ASSUME NEW i \in 1..Len(jobs), jobs[i].triggered # Never
        PROVE  /\ jobs[i].triggered <= time
               /\ jobs[i].nLastTriggerTime = jobs[i].triggered % TickRange
               /\ time \div TickRange = jobs[i].triggered \div TickRange
                  => time - jobs[i].triggered <= jobs[i].nTriggerIntervalMS + PassDistance
    <3> DEFINE t == jobs[i].triggered
    <3>1. PassedBy(jobs[i])
      BY <1>1 DEF TimerInv, JobsInv
    <3>2. t \in Nat /\ jobs[i].nTriggerIntervalMS \in Nat
      BY <1>1, <2>1, JobInList, JobFields
    <3>3. t <= nowTime /\ jobs[i].nLastTriggerTime = t % TickRange
      BY <2>1, <3>1 DEF PassedBy, Recorded
    <3>4. ASSUME time \div TickRange = t \div TickRange
          PROVE  nowTime - t <= jobs[i].nTriggerIntervalMS
      <4>1. /\ t \div TickRange <= nowTime \div TickRange
            /\ nowTime \div TickRange <= time \div TickRange
        BY <1>2, <1>3, <3>2, <3>3, RoundMonotone
      <4>2. SameRound(jobs[i])
        BY <1>2, <3>2, <3>4, <4>1, RoundAndTick DEF SameRound
      <4>3. QED
        BY <2>1, <3>1, <4>2 DEF PassedBy
    <3>5. QED
      BY <1>2, <1>3, <3>2, <3>3, <3>4
  <2>2. ASSUME NEW i \in 1..Len(jobs) PROVE Ahead(jobs[i])'
    BY <1>1, <2>1 DEF Ahead, Recorded, SameRound, PassDistance
  <2>3. QED
    BY <1>1, <2>2 DEF JobsInv
<1>9. QED
  BY <1>5, <1>6, <1>7, <1>8 DEF TimerInv

\* The pass goes by a job that is not due.
LEMMA PassOverKeeps ==
  ASSUME TimerInv, PassOver
  PROVE  TimerInv'
<1>1. /\ TimerTypeOK /\ TimeInv /\ timerPc = "scan" /\ cursor \in 1..Len(jobs)
      /\ ~Due(jobs[cursor]) /\ cursor' = cursor + 1
      /\ UNCHANGED <<time, startTime, timerDue, jobs, timerPc, nowTick, nowTime,
                     running, request>>
  BY TimerNumbers DEF TimerInv, PlaceInv, PassOver, AtJob
<1>2. cursor \in Nat /\ Len(jobs) \in Nat
  BY <1>1, TimerNumbers
<1>3. TimerTypeOK' /\ RequestInv' /\ TimeInv'
  BY <1>1, <1>2 DEF TimerInv, TimerTypeOK, RequestInv, TimeInv
<1>4. PlaceInv'
  BY <1>1, <1>2 DEF PlaceInv, CursorLive
<1>5. PassedBy(jobs[cursor])
  <2>1. jobs[cursor] \in JobType
    BY <1>1, JobInList
  <2>2. Ahead(jobs[cursor])
    BY <1>1, <1>2 DEF TimerInv, JobsInv
  <2>3. QED
    BY <1>1, <2>1, <2>2, NotDueYet
<1>6. ASSUME NEW i \in 1..Len(jobs)
      PROVE  /\ i < cursor + 1 => PassedBy(jobs[i])
             /\ i >= cursor + 1 => Ahead(jobs[i])
  <2>1. i < cursor \/ i = cursor \/ i > cursor
    BY <1>2
  <2>2. QED
    BY <1>1, <1>2, <1>5, <2>1 DEF TimerInv, JobsInv
<1>7. JobsInv'
  BY <1>1, <1>6 DEF JobsInv, PassedBy, Ahead, Recorded, SameRound, Due, SumWraps
<1>8. QED
  BY <1>3, <1>4, <1>7 DEF TimerInv

\* A job is triggered.
LEMMA TriggerKeeps ==
  ASSUME TimerInv, Trigger
  PROVE  TimerInv'
<1> DEFINE job == [jobs[cursor] EXCEPT !.triggered = nowTime]
<1>1. /\ TimerTypeOK /\ timerPc = "scan" /\ cursor \in 1..Len(jobs)
      /\ jobs' = [jobs EXCEPT ![cursor] = job]
      /\ running' = [id |-> jobs[cursor].nJobId, calls |-> 0, added |-> FALSE]
      /\ timerPc' = "callback"
      /\ UNCHANGED <<time, startTime, timerDue, cursor, nowTick, nowTime, request>>
  BY TimerNumbers DEF TimerInv, PlaceInv, Trigger, AtJob
<1>2. cursor \in Nat /\ Len(jobs) \in Nat /\ nowTime \in Nat /\ jobs \in Seq(JobType)
  BY <1>1, TimerNumbers DEF TimerTypeOK
<1>3. job \in JobType /\ job.triggered = nowTime /\ job.nJobId = jobs[cursor].nJobId
  BY <1>1, <1>2, JobInList DEF JobType
<1>4. /\ jobs' \in Seq(JobType) /\ Len(jobs') = Len(jobs) /\ jobs'[cursor] = job
      /\ \A i \in 1..Len(jobs) : i # cursor => jobs'[i] = jobs[i]
  BY <1>1, <1>2, <1>3
<1>5. jobs[cursor].nJobId \in Ids
  BY <1>1, JobInList, JobFields
<1>6. TimerTypeOK' /\ RequestInv' /\ TimeInv'
  BY <1>1, <1>4, <1>5 DEF TimerInv, TimerTypeOK, RequestInv, TimeInv
<1>7. PlaceInv'
  BY <1>1, <1>2, <1>3, <1>4 DEF PlaceInv, CursorLive
<1>8. ASSUME NEW i \in 1..Len(jobs)
      PROVE  /\ i < cursor => PassedBy(jobs[i]) /\ jobs'[i] = jobs[i]
             /\ i > cursor => Ahead(jobs[i]) /\ jobs'[i] = jobs[i]
  BY <1>1, <1>2, <1>4 DEF TimerInv, JobsInv
<1>9. JobsInv'
  BY <1>1, <1>4, <1>8 DEF JobsInv, PassedBy, Ahead, Recorded, SameRound, Due, SumWraps
<1>10. QED
  BY <1>6, <1>7, <1>9 DEF TimerInv

\* Its callback returns, and the trigger is recorded.
LEMMA ReturnKeeps ==
  ASSUME TimerInv, CallbackReturns
  PROVE  TimerInv'
<1> DEFINE job == [jobs[cursor] EXCEPT !.nLastTriggerTime = nowTick]
<1>1. /\ TimerTypeOK /\ TimeInv /\ timerPc = "callback" /\ cursor \in 1..Len(jobs)
      /\ jobs[cursor].triggered = nowTime
      /\ jobs' = [jobs EXCEPT ![cursor] = job]
      /\ cursor' = cursor + 1 /\ timerPc' = "scan" /\ running' = NoCallback
      /\ UNCHANGED <<time, startTime, timerDue, nowTick, nowTime, request>>
  BY DEF TimerInv, PlaceInv, CursorLive, CallbackReturns
<1>2. /\ cursor \in Nat /\ Len(jobs) \in Nat /\ jobs \in Seq(JobType)
      /\ nowTick \in 0..TickRange - 1
  BY <1>1, TimerNumbers DEF TimerTypeOK
<1>3. /\ job \in JobType /\ job.triggered = nowTime /\ job.nLastTriggerTime = nowTick
  BY <1>1, <1>2, JobInList DEF JobType
<1>4. /\ jobs' \in Seq(JobType) /\ Len(jobs') = Len(jobs) /\ jobs'[cursor] = job
      /\ \A i \in 1..Len(jobs) : i # cursor => jobs'[i] = jobs[i]
  BY <1>1, <1>2, <1>3
<1>5. TimerTypeOK' /\ RequestInv' /\ TimeInv'
  <2>1. NoCallback \in [id : Ids \cup {Never}, calls : Nat, added : BOOLEAN]
    BY DEF NoCallback
  <2>2. QED
    BY <1>1, <1>2, <1>4, <2>1 DEF TimerInv, TimerTypeOK, RequestInv, TimeInv
<1>6. PlaceInv'
  BY <1>1, <1>2, <1>4 DEF PlaceInv, CursorLive
<1>7. PassedBy(job)
  BY <1>1, <1>3, JustTriggered DEF PassedBy
<1>8. ASSUME NEW i \in 1..Len(jobs)
      PROVE  /\ i < cursor + 1 => PassedBy(jobs'[i])
             /\ i >= cursor + 1 => Ahead(jobs'[i])
  <2>1. i < cursor \/ i = cursor \/ i > cursor
    BY <1>2
  <2>2. i < cursor => PassedBy(jobs[i])
    BY DEF TimerInv, JobsInv
  <2>3. i > cursor => Ahead(jobs[i])
    BY <1>1 DEF TimerInv, JobsInv
  <2>4. QED
    BY <1>2, <1>4, <1>7, <2>1, <2>2, <2>3
<1>9. JobsInv'
  BY <1>1, <1>4, <1>8 DEF JobsInv, PassedBy, Ahead, Recorded, SameRound, Due, SumWraps
<1>10. QED
  BY <1>5, <1>6, <1>9 DEF TimerInv

\* The pass ends: it has gone by all jobs.
LEMMA EndKeeps ==
  ASSUME TimerInv, EndTimerPass
  PROVE  TimerInv'
<1>1. /\ timerPc = "scan" /\ cursor > Len(jobs) /\ timerPc' = "loop" /\ cursor' = 0
      /\ UNCHANGED <<time, startTime, timerDue, jobs, nowTick, nowTime, running, request>>
  BY DEF EndTimerPass
<1>2. cursor \in Nat /\ Len(jobs) \in Nat
  BY TimerNumbers DEF TimerInv
<1>3. TimerTypeOK' /\ RequestInv' /\ TimeInv'
  BY <1>1 DEF TimerInv, TimerTypeOK, RequestInv, TimeInv
<1>4. PlaceInv'
  BY <1>1 DEF PlaceInv, CursorLive
<1>5. \A i \in 1..Len(jobs) : PassedBy(jobs[i])
  BY <1>1, <1>2 DEF TimerInv, JobsInv
<1>6. JobsInv'
  BY <1>1, <1>5 DEF JobsInv, PassedBy, Recorded, SameRound
<1>7. QED
  BY <1>3, <1>4, <1>6 DEF TimerInv

\* A millisecond passes.
LEMMA TickKeeps ==
  ASSUME TimerInv, Tick
  PROVE  TimerInv'
<1>1. /\ time < timerDue + MaxLate /\ time' = time + 1 /\ RequestInv
      /\ UNCHANGED <<startTime, timerDue, jobs, timerPc, cursor, nowTick, nowTime,
                     running, request>>
  BY DEF TimerInv, Tick
<1>2. time \in Nat /\ timerDue \in Nat /\ nowTime \in Nat /\ MaxLate \in Nat
  BY TimerNumbers DEF TimerInv
<1>3. nowTime <= time + 1 /\ time + 1 <= timerDue + MaxLate /\ time + 1 \in Nat
  BY <1>1, <1>2 DEF TimerInv, TimeInv
<1>4. TimerTypeOK' /\ RequestInv'
  BY <1>1, <1>3 DEF TimerInv, TimerTypeOK, RequestInv
<1>5. TimeInv'
  BY <1>1, <1>3 DEF TimerInv, TimeInv
<1>6. JobsInv' /\ PlaceInv'
  BY <1>1, SameJobs DEF TimerInv
<1>7. QED
  BY <1>4, <1>5, <1>6 DEF TimerInv

\* A thread asks for something.
LEMMA CallKeeps ==
  ASSUME TimerInv, NEW op \in Calls, NEW id \in Ids, NEW interval \in Intervals,
         CallTimer(op, id, interval)
  PROVE  TimerInv'
<1>1. /\ request' = [op |-> op, id |-> id, interval |-> interval]
      /\ UNCHANGED <<time, startTime, timerDue, jobs, timerPc, cursor, nowTick, nowTime,
                     running>>
  BY DEF CallTimer
<1>2. op \in {"Add", "Remove", "Clear"} /\ interval \in Nat
  BY TimerAssumption
<1>3. TimerTypeOK' /\ RequestInv' /\ TimeInv'
  BY <1>1, <1>2 DEF TimerInv, TimerTypeOK, RequestInv, TimeInv
<1>4. JobsInv' /\ PlaceInv'
  BY <1>1, SameJobs DEF TimerInv
<1>5. QED
  BY <1>3, <1>4 DEF TimerInv

\* It has the mutex and gets what it asked for.
LEMMA AnswerKeeps ==
  ASSUME TimerInv, Answer
  PROVE  TimerInv'
<1>1. /\ TimerTypeOK /\ timerPc = "loop" /\ request' = NoRequest
      /\ UNCHANGED <<time, startTime, timerDue, timerPc, nowTick, nowTime, running>>
  BY DEF TimerInv, Answer, Answered
<1>2. jobs' \in Seq(JobType) /\ cursor' \in Nat /\ PlaceInv' /\ JobsInv'
  <2>1. CASE request.op = "Add" /\ Add(request.id, request.interval) /\ UNCHANGED cursor
    <3>1. request.id \in Ids /\ request.interval \in Intervals
      BY <2>1 DEF TimerInv, RequestInv
    <3>2. cursor' \in Nat
      BY <1>1, <2>1, TimerNumbers
    <3>3. QED
      BY <1>1, <2>1, <3>1, <3>2, AddKeeps
  <2>2. CASE request.op = "Remove" /\ Remove(request.id)
    BY <1>1, <2>2, RemoveKeeps
  <2>3. CASE request.op = "Clear" /\ jobs' = <<>> /\ UNCHANGED cursor
    <3>1. jobs' \in Seq(JobType) /\ Len(jobs') = 0
      BY <2>3
    <3>2. cursor = 0
      BY <1>1 DEF TimerInv, PlaceInv
    <3>3. PlaceInv' /\ JobsInv'
      BY <1>1, <2>3, <3>1, <3>2 DEF PlaceInv, CursorLive, JobsInv
    <3>4. QED
      BY <2>3, <3>1, <3>2, <3>3
  <2>4. QED
    BY <2>1, <2>2, <2>3 DEF Answer, Answered
<1>3. RequestInv'
  BY <1>1 DEF RequestInv, NoRequest
<1>4. TimeInv'
  BY <1>1 DEF TimerInv, TimeInv
<1>5. TimerTypeOK'
  BY <1>1, <1>2 DEF TimerTypeOK, NoRequest
<1>6. QED
  BY <1>2, <1>3, <1>4, <1>5 DEF TimerInv

\* A callback adds or removes a job.
LEMMA CallbackKeeps ==
  ASSUME TimerInv, NEW id \in Ids,
         (\E interval \in Intervals : CallbackAdds(id, interval)) \/ CallbackRemoves(id)
  PROVE  TimerInv'
<1>1. /\ TimerTypeOK /\ timerPc = "callback"
      /\ UNCHANGED <<time, startTime, timerDue, timerPc, nowTick, nowTime, request>>
  BY DEF TimerInv, CallbackAdds, CallbackRemoves, MayCallTimer
<1>2. running \in [id : Ids \cup {Never}, calls : Nat, added : BOOLEAN]
  BY <1>1 DEF TimerTypeOK
<1>3. /\ running' \in [id : Ids \cup {Never}, calls : Nat, added : BOOLEAN]
      /\ running'.id = running.id
  <2>1. \/ running' = [running EXCEPT !.calls = @ + 1, !.added = TRUE]
        \/ running' = [running EXCEPT !.calls = @ + 1]
    BY DEF CallbackAdds, CallbackRemoves
  <2>2. CASE running' = [running EXCEPT !.calls = @ + 1, !.added = TRUE]
    <3>1. running' = [[running EXCEPT !.calls = running.calls + 1] EXCEPT !.added = TRUE]
      BY <2>2
    <3>2. /\ [running EXCEPT !.calls = running.calls + 1]
               \in [id : Ids \cup {Never}, calls : Nat, added : BOOLEAN]
          /\ [running EXCEPT !.calls = running.calls + 1].id = running.id
      BY <1>2
    <3>3. \A r \in [id : Ids \cup {Never}, calls : Nat, added : BOOLEAN] :
             /\ [r EXCEPT !.added = TRUE]
                  \in [id : Ids \cup {Never}, calls : Nat, added : BOOLEAN]
             /\ [r EXCEPT !.added = TRUE].id = r.id
      OBVIOUS
    <3>4. QED
      BY <3>1, <3>2, <3>3
  <2>3. CASE running' = [running EXCEPT !.calls = @ + 1]
    BY <1>2, <2>3
  <2>4. QED
    BY <2>1, <2>2, <2>3
<1>4. jobs' \in Seq(JobType) /\ cursor' \in Nat /\ PlaceInv' /\ JobsInv'
  <2>1. ASSUME NEW interval \in Intervals, CallbackAdds(id, interval)
        PROVE  jobs' \in Seq(JobType) /\ cursor' \in Nat /\ PlaceInv' /\ JobsInv'
    <3>1. Add(id, interval) /\ UNCHANGED cursor
      BY <2>1 DEF CallbackAdds
    <3>2. cursor' \in Nat
      BY <1>1, <3>1, TimerNumbers
    <3>3. QED
      BY <1>1, <1>3, <3>1, <3>2, AddKeeps
  <2>2. CASE CallbackRemoves(id)
    <3>1. Remove(id) /\ id # running.id
      BY <2>2 DEF CallbackRemoves
    <3>2. QED
      BY <1>1, <1>3, <3>1, RemoveKeeps
  <2>3. QED
    BY <2>1, <2>2
<1>5. TimerTypeOK' /\ RequestInv' /\ TimeInv'
  BY <1>1, <1>3, <1>4 DEF TimerInv, TimerTypeOK, RequestInv, TimeInv
<1>6. QED
  BY <1>4, <1>5 DEF TimerInv

\* The engine begins without jobs.
LEMMA TimerInitially == TimerInit => TimerInv
<1>1. SUFFICES ASSUME TimerInit PROVE TimerInv
  OBVIOUS
<1>2. time \in Nat /\ Period \in Nat /\ MaxLate \in Nat
  BY <1>1, TimerAssumption DEF TimerInit
<1>3. time + Period \in Nat /\ time <= time /\ time <= time + Period + MaxLate
  BY <1>2
<1>4. TimerTypeOK
  BY <1>1, <1>2, <1>3, TimerAssumption DEF TimerInit, TimerTypeOK, NoCallback, NoRequest
<1>5. TimeInv
  BY <1>1, <1>2, <1>3 DEF TimerInit, TimeInv
<1>6. RequestInv /\ PlaceInv /\ JobsInv
  BY <1>1 DEF TimerInit, RequestInv, NoRequest, PlaceInv, CursorLive, JobsInv
<1>7. QED
  BY <1>4, <1>5, <1>6 DEF TimerInv

\* The invariant is inductive.
LEMMA TimerStep == TimerInv /\ [TimerNext]_timerVars => TimerInv'
<1>1. SUFFICES ASSUME TimerInv, [TimerNext]_timerVars PROVE TimerInv'
  OBVIOUS
<1>2. CASE Tick
  BY <1>1, <1>2, TickKeeps
<1>3. ASSUME NEW op \in Calls, NEW id \in Ids, NEW interval \in Intervals,
             CallTimer(op, id, interval)
      PROVE  TimerInv'
  BY <1>1, <1>3, CallKeeps
<1>4. CASE Answer
  BY <1>1, <1>4, AnswerKeeps
<1>5. CASE BeginTimerPass
  BY <1>1, <1>5, BeginKeeps
<1>6. CASE ProcessTimerJob
  BY <1>1, <1>6, PassOverKeeps, TriggerKeeps, ReturnKeeps, EndKeeps DEF ProcessTimerJob
<1>7. ASSUME NEW id \in Ids, NEW interval \in Intervals, CallbackAdds(id, interval)
      PROVE  TimerInv'
  BY <1>1, <1>7, CallbackKeeps
<1>8. ASSUME NEW id \in Ids, CallbackRemoves(id)
      PROVE  TimerInv'
  BY <1>1, <1>8, CallbackKeeps
<1>9. CASE UNCHANGED timerVars
  <2>1. TimerTypeOK' /\ RequestInv' /\ TimeInv'
    BY <1>1, <1>9 DEF timerVars, TimerInv, TimerTypeOK, RequestInv, TimeInv
  <2>2. JobsInv' /\ PlaceInv'
    BY <1>1, <1>9, SameJobs DEF timerVars, TimerInv
  <2>3. QED
    BY <2>1, <2>2 DEF TimerInv
<1>10. QED
  BY <1>1, <1>2, <1>3, <1>4, <1>5, <1>6, <1>7, <1>8, <1>9 DEF TimerNext

-----------------------------------------------------------------------------
(* Results.                                                                *)

\* The inductive invariant is an invariant.
THEOREM TimerInvariant == TimerSpec => []TimerInv
<1>1. QED
  BY TimerInitially, TimerStep, PTL DEF TimerSpec

\* Ticks stay within what GetTickCount can tell apart, every job in the list
\* is one, and a request comes with its arguments.
THEOREM TimerTypeCorrect == TimerSpec => []TimerTypeOK
<1>1. TimerInv => TimerTypeOK
  BY DEF TimerInv
<1>2. QED
  BY <1>1, TimerInvariant, PTL

\* processTimerJob goes on with a job that is still in the list, whatever its
\* callback and other threads have done to the list.
THEOREM CursorStaysLive == TimerSpec => []CursorLive
<1>1. TimerInv => CursorLive
  BY DEF TimerInv, PlaceInv
<1>2. QED
  BY <1>1, TimerInvariant, PTL

\* A job is never triggered twice within its interval, unless the sum of its
\* last trigger and its interval wraps.
THEOREM TriggersAreSpaced == TimerSpec => []Spacing
<1>1. ASSUME TimerInv PROVE Spacing
  <2>1. SUFFICES ASSUME AtJob, Due(jobs[cursor]), jobs[cursor].triggered # Never,
                        ~SumWraps(jobs[cursor])
                 PROVE  nowTime - jobs[cursor].triggered > jobs[cursor].nTriggerIntervalMS
    BY DEF Spacing
  <2>2. TimerTypeOK /\ TimeInv /\ timerPc = "scan" /\ cursor \in 1..Len(jobs)
    BY <1>1, <2>1, TimerNumbers DEF TimerInv, PlaceInv, AtJob
  <2>3. jobs[cursor] \in JobType
    BY <2>2, JobInList
  <2>4. cursor >= cursor
    BY <2>2, TimerNumbers
  <2>5. Ahead(jobs[cursor])
    BY <1>1, <2>2, <2>4 DEF TimerInv, JobsInv
  <2>6. QED
    BY <2>1, <2>2, <2>3, <2>5, DueLate DEF Ahead
<1>2. QED
  BY <1>1, TimerInvariant, PTL

\* When a pass is over no job in the list is due, whichever of them callbacks
\* have added or removed meanwhile, unless the sum wraps.
THEOREM NoJobOverlooked == TimerSpec => []NoneOverlooked
<1>1. ASSUME TimerInv PROVE NoneOverlooked
  <2>1. SUFFICES ASSUME timerPc = "scan", cursor > Len(jobs), NEW i \in 1..Len(jobs)
                 PROVE  ~Due(jobs[i]) \/ SumWraps(jobs[i])
    BY DEF NoneOverlooked
  <2>2. i < cursor
    BY <1>1, <2>1, TimerNumbers DEF TimerInv
  <2>3. QED
    BY <1>1, <2>1, <2>2 DEF TimerInv, JobsInv, PassedBy
<1>2. QED
  BY <1>1, TimerInvariant, PTL

\* A job that has been triggered is triggered again before its interval and
\* twice the distance of two passes are over, as long as the tick does not
\* wrap.
THEOREM JobsPunctual == TimerSpec => []Punctual
<1>1. ASSUME TimerInv PROVE Punctual
  <2>1. SUFFICES ASSUME NEW i \in 1..Len(jobs), jobs[i].triggered # Never,
                        time \div TickRange = jobs[i].triggered \div TickRange
                 PROVE  time - jobs[i].triggered
                          <= jobs[i].nTriggerIntervalMS + 2 * (Period + MaxLate)
    BY DEF Punctual
  <2> DEFINE t == jobs[i].triggered
             interval == jobs[i].nTriggerIntervalMS
  <2>2. t \in Nat /\ interval \in Nat
    BY <1>1, <2>1, JobInList, JobFields DEF TimerInv
  <2>3. /\ time \in Nat /\ nowTime \in Nat /\ cursor \in Nat /\ Len(jobs) \in Nat
        /\ Period \in Nat /\ MaxLate \in Nat /\ PassDistance = Period + MaxLate
        /\ nowTime <= time /\ time - nowTime <= PassDistance
    <3>1. timerDue \in Nat
      BY <1>1, TimerNumbers DEF TimerInv
    <3>2. QED
      BY <1>1, <3>1, TimerNumbers DEF TimerInv, TimeInv, PassDistance
  <2>4. \/ PassedBy(jobs[i]) \/ Ahead(jobs[i])
        \/ timerPc = "callback" /\ i = cursor
    <3>1. i < cursor \/ i = cursor \/ i > cursor
      BY <2>3
    <3>2. timerPc \in {"loop", "scan", "callback"}
      BY <1>1 DEF TimerInv, TimerTypeOK
    <3>3. i >= cursor \/ i < cursor
      BY <2>3
    <3>4. QED
      BY <1>1, <3>1, <3>2, <3>3 DEF TimerInv, JobsInv
  <2>5. t <= nowTime
    <3>1. nowTime <= nowTime
      BY <2>3
    <3>2. QED
      BY <1>1, <2>1, <2>4, <3>1 DEF PassedBy, Ahead, Recorded, TimerInv, PlaceInv, CursorLive
  <2>6. SameRound(jobs[i])
    <3>1. /\ t \div TickRange <= nowTime \div TickRange
          /\ nowTime \div TickRange <= time \div TickRange
      BY <2>2, <2>3, <2>5, RoundMonotone
    <3>2. QED
      BY <2>1, <2>2, <2>3, <3>1, RoundAndTick DEF SameRound
  <2>7. nowTime - t <= interval + PassDistance
    <3>1. CASE PassedBy(jobs[i])
      <4>1. nowTime - t <= interval
        BY <2>1, <2>6, <3>1 DEF PassedBy
      <4>2. QED
        BY <2>2, <2>3, <4>1
    <3>2. CASE Ahead(jobs[i])
      BY <2>1, <2>6, <3>2 DEF Ahead
    <3>3. CASE timerPc = "callback" /\ i = cursor
      <4>1. t = nowTime
        BY <1>1, <3>3 DEF TimerInv, PlaceInv, CursorLive
      <4>2. QED
        BY <2>2, <2>3, <4>1
    <3>4. QED
      BY <2>4, <3>1, <3>2, <3>3
  <2>8. QED
    BY <2>2, <2>3, <2>7
<1>2. QED
  BY <1>1, TimerInvariant, PTL
=============================================================================
