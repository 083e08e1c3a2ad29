SPECIFICATION Spec
CONSTANTS
    e1 = e1
    e2 = e2
    ann = ann
    bob = bob
    v1 = v1
    v2 = v2
    p1 = p1
    p2 = p2
    Editors = {e1, e2}
    Customers = {ann}
    Details = {v1}
    Blank = Blank
    Prices = {p1}
    NoPrice = NoPrice
    MaxTime = 1
    MaxRows = 1
    MaxCalls <- MCCalls
    Patience = {FALSE}
INVARIANTS
    TypeOK
    NotRevived
PROPERTIES
    PricesKept
