CONSTANTS
    Lines <- MCLines
    Entries <- MCEntries
    Specs <- MCSpecs
    Rates = {500, 1000, 5000, 3333}
    Totals <- MCTotals
    Increments = {0, 1, 5}
    Writers = {w1, w2, w3}
    Events = {a, b}
    MaxEvents = 4
    MaxBatch = 2
    Subscriptions = {s1, s2}
    Unreachable = {s2}
    Changes = {submitted, certified}
    Drafts = {draft}
    Workers = {drain}
    MaxAttempts = 3
    DisableAfter = 2
    Limit = 2
    LongestWait = 2
    MaxCrashes = 0

SPECIFICATION FoundationsSpec

INVARIANTS
    RatesRoundHalfAway
    RetainageStaysOnItsLine
    BillingMoreNeverEarnsLess
    AllocationIsExactAndFair
    AllocationReverses
    ChainIsIntact
    TamperingIsLocated
    

PROPERTIES
    IsAnAppendOnlyLog

CHECK_DEADLOCK FALSE
