CONSTANTS
    Items = {"1"}
    OrderItems = {"2"}
    InitialValues <- MCInitialValues
    ScheduledValues = {20, 40}
    OrderAmounts = {20}
    ContractSums = {20, 40}
    Rules <- MCRules
    Days = {1, 2, 3}
    OrderDays = {2}
    Work = {10}
    Stored = {0}
    Trims = {4}
    Receipts = {9}
    MaxApplications = 3
    MaxReceipts = 0
SPECIFICATION Spec
INVARIANT
    CumulativeCertificatesAreCarried
CONSTRAINT
    Bounded
