SPECIFICATION Spec
CONSTANTS
    phone = phone
    tablet = tablet
    ann = ann
    bob = bob
    NoUser = NoUser
    tea = tea
    salt = salt
    Devices = {phone, tablet}
    Users = {ann}
    Products = {tea}
    Accounts <- MCTwoDevices
    MaxTime = 2
    Patient = TRUE
    AlwaysLoaded = FALSE
    Faults = TRUE
PROPERTIES
    DeletedAfterOrder
SYMMETRY DeviceSymmetry
