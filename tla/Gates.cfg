CONSTANTS
    Values <- MCValues
    Work = {0, 1}
    Typed = {2}
    Amounts = {2}
    Days = {1, 3, 4}
    PeriodEnds <- MCPeriodEnds
    Certificates = {1}
    None = None
    MaxRevisions = 1
    MaxMaterials = 2
    MaxWaivers = 1
    MaxRequirements = 1
    MaxDocuments = 2
    Requests = {r1, r2}
    Capabilities = {"gc_billing", "esign"}
    Plans <- MCPlans
    Counts = {0, 1}
    Unlimited <- MCUnlimited
    Nothing = none
    CacheTime = 2
    GraceTime = 3
    RetryAfterFailure = 2
    RequestTimeout = 1

SPECIFICATION GatesSpec

INVARIANTS
    InstalledLeavesColumnF
    EarlyWaiversFitTheRequest
    EveryPeriodIsDocumented

PROPERTIES
    OutageWithinGraceStopsNobody
    WhatIsAllowedWasGranted

CONSTRAINTS
    Bounded

SYMMETRY
    Symmetry

CHECK_DEADLOCK FALSE
