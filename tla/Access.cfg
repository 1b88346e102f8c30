CONSTANTS
    Users = {u1, u2}
    Organizations = {o1, o2}
    Browsers = {b1}
    Roles = {"owner", "viewer"}
    Assertions = {a1}
    HandoffRequests = {h1, h2}
    MemberRequests = {m1, m2}
    None = none
    MaxFailedLogins = 2
    LockoutDuration = 1
    MaxAge = 1
    Skew = 1
    KeepSpentFor = 2

SPECIFICATION Spec

INVARIANTS
    SessionsAreProven
    HandoffUsedOnce

PROPERTIES
    OnlyTheOvertakenTakeTheLastOwner

CONSTRAINTS
    Bounded

SYMMETRY
    Symmetry

CHECK_DEADLOCK FALSE
