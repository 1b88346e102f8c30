CONSTANTS
    Subscriptions = {s1, s2}
    Unreachable = {s2}
    Changes = {submitted}
    Drafts = {draft}
    Workers = {w1, w2}
    MaxAttempts = 2
    DisableAfter = 2
    Limit = 2
    LongestWait = 1
    MaxCrashes = 1
SPECIFICATION Spec
INVARIANTS
    TypeOK
    OnlyCommittedChangesAreAnnounced
    SettledRowsTellTheTruth
    DisabledWithCause
PROPERTIES
    EveryDeliverySettles
CHECK_DEADLOCK FALSE
