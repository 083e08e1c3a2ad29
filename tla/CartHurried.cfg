SPECIFICATION FairSpec
CONSTANTS
    phone = phone
    tablet = tablet
    ann = ann
    bob = bob
    NoUser = NoUser
    tea = tea
    salt = salt
    Devices = {phone}
    Users = {ann, bob}
    Products = {tea}
    Accounts <- MCSharedPhone
    MaxTime = 4
    Patient = FALSE
    AlwaysLoaded = TRUE
    Faults = FALSE
INVARIANTS
    CartInList
PROPERTIES
    AddShows
CHECK_DEADLOCK FALSE
