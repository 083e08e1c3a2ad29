SPECIFICATION FairSpec
CONSTANTS
    small = small
    large = large
    left = left
    right = right
    Lines <- MCLines
    Quantity <- MCQuantity
    Total <- MCTotal
    Amounts = {1}
    Dialogs <- MCTwoDialogs
    MaxDelivered = 4
    Faults = TRUE
INVARIANTS
    NeverOverstated
    DeliveredNotPremature
    LineNotLost
    DeliveredIsLedger
PROPERTIES
    LineReturns
CHECK_DEADLOCK FALSE
