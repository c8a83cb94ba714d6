SPECIFICATION FollowSpec
CONSTANTS
    Bound = 2
    MaxFeedback = 3
    MaxAttempts = 2
INVARIANTS
    NoSilentGap
    KeepsFollowedGoal
PROPERTIES
    LeftGoalCancelled
    ReadsEnd
    HaltCancelsMove
CHECK_DEADLOCK FALSE
