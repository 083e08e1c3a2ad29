SPECIFICATION Spec
CONSTANTS
    phone = phone
    tablet = tablet
    ann = ann
    bob = bob
    NoUser = NoUser
    tea = tea
    salt = salt
    Devices = {phone}
    Users = {ann, bob}
    Products = {tea, salt}
    Accounts <- MCSharedPhone
    MaxTime = 6
    Patient = TRUE
    AlwaysLoaded = TRUE
    Faults = FALSE
INVARIANTS
    TypeOK
    CartMirrored
    EachItemOnce
PROPERTIES
    ImplementsBasket
