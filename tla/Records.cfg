CONSTANTS
    ItemNumbers = {"1", "2"}
    Values = {10, 20}
    Amounts <- MCAmounts
    ContractSums = {20, 30}
    MaxRevisions = 3
    MaxLines = 2
    MaxOrders = 2
    MaxOrderLines = 2
    Numbers = {"1"}
    SubcontractAmounts = {0, 105}
    RetainageRates = {1000}
    PrimeRate = 500
    Claims = {0, 45, 105}
    Cuts <- MCCuts
    Days = {1, 2}
    MaxBillings = 3
    Editions <- MCEditions
    RuleKeys <- MCRuleKeys
    Projects <- MCProjects
    WaiverTypes = {"conditional_progress"}
    Texts = {"statute"}
    DayCounts <- MCDayCounts
    Dates = {3, 5}
    PeriodEnds = {8, 11, 12}
    WarnWithin = 2
    MaxWaivers = 1
    General = ""
    None = none

SPECIFICATION RecordsSpec

INVARIANTS
    TypeOK
    OneLiveRevision
    RoutesDifferByAdjustingLines
    PaysNoMoreThanEarned
    FinalBillingSettlesUp
    PrescribedWordingOnly
    DueDatesAreCounted
    DeadlineWarningsNeverLapse

PROPERTIES
    FrozenLinesKeepTheirBase

CONSTRAINTS
    Bounded
    DatedByRule
    LineBesideOneBilling

CHECK_DEADLOCK FALSE
