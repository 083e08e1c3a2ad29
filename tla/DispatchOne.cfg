SPECIFICATION Spec
CONSTANTS
    small = small
    large = large
    left = left
    right = right
    Lines <- MCLines
    Quantity <- MCQuantity
    Total <- MCTotal
    Amounts = {0, 1, 2}
    Dialogs <- MCOneDialog
    MaxDelivered = 6
    Faults = TRUE
INVARIANTS
    TypeOK
    LinesExact
    StatusExact
PROPERTIES
    ImplementsOrderBook
CHECK_DEADLOCK FALSE
