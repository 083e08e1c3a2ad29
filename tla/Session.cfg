SPECIFICATION FairSpec
CONSTANTS
    Customers = {ann, bob}
    Admins = {root}
    Nobody = Nobody
    ann = ann
    bob = bob
    root = root
    Crowd <- MCCrowd
    MaxSwitches = 2
    MaxCalls = 2
INVARIANTS
    TypeOK
    PageFitsUser
    LoadingMeansCall
PROPERTIES
    HomeChecksProfile
    ApprovalKept
    ButtonsReturn
