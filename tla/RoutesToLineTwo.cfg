CONSTANTS
    ItemNumbers = {"1", "2"}
    Values = {10, 20}
    Amounts <- MCAmounts
    ContractSums = {20, 30}
    MaxRevisions = 3
    MaxLines = 2
    MaxOrders = 1
    MaxOrderLines = 1
SPECIFICATION ScheduleSpec
INVARIANT
    RoutesToLineTwoAgree
CONSTRAINT
    Bounded
