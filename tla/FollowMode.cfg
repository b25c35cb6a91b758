SPECIFICATION FollowSpec
CONSTANTS
    Sustain = 3
    Cooldown = 2
    MaxNow = 7
    MaxLines = 2
    MaxAcquires = 3
INVARIANTS AttemptsSpaced ArrivalWins SleepsAfterStop
PROPERTIES SentOnlyWhenLost
