SPECIFICATION Spec
CONSTANTS
    Logins = {l1, l2}
    Names = {alice}
    None = None
    Second = 2
    BaseDelay = 2
    MaxDelay = 5
    DecayAfter = 6
    MaxTime = 14
    MaxFailures = 7
SYMMETRY Symmetry
CHECK_DEADLOCK FALSE
INVARIANTS
    TypeOK
    ScheduleFollowsFailures
    RetryAfterSuffices
PROPERTY
    FailuresNeverShortenTheWait
