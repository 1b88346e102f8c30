CONSTANTS
    Sessions = {s1, s2, s3}
    Days = {1, 2}
    Work = {1}
    None = None
    MaxApplications = 2
SPECIFICATION Spec
INVARIANT
    OneLivePeriod
CHECK_DEADLOCK FALSE
