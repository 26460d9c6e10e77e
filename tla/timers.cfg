CONSTANTS
    Ids = {1, 2}
    Intervals = {0, 2}
    TickRange = 8
    Period = 1
    StartTimes = {4}
    MaxLate = 1
    Duration = 10
    MaxJobs = 2
    PerCallback = 2
    Calls = {"Add", "Remove", "Clear"}
SPECIFICATION FairTimerSpec
INVARIANTS TimerTypeOK CursorLive Spacing NoneOverlooked Punctual
PROPERTY TimerCallsReturn
