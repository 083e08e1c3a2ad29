SPECIFICATION Spec
CONSTANTS
    e1 = e1
    e2 = e2
    ann = ann
    bob = bob
    v1 = v1
    v2 = v2
    p1 = p1
    p2 = p2
    Editors = {e1}
    Customers = {ann, bob}
    Details = {v1, v2}
    Blank = Blank
    Prices = {p1, p2}
    NoPrice = NoPrice
    MaxTime = 3
    MaxRows = 2
    MaxCalls <- MCOneCall
    Patience = {TRUE}
SYMMETRY Symmetry
INVARIANTS
    ToastTrue
