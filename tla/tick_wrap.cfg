CONSTANTS
    Ids = {1}
    Intervals = {3}
    TickRange = 16
    Period = 2
    StartTimes = {6, 7, 8, 9}
    MaxLate = 0
    Duration = 30
    MaxJobs = 1
    PerCallback = 0
    Calls = {"Add"}
SPECIFICATION TimerSpec
INVARIANT OnTime
