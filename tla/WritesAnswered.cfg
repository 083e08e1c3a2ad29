SPECIFICATION FairSpec
CONSTANTS
    Users = {alice, bob}
    MaxPendingWrites = 1
    MaxWrites = 2
    MaxChanges = 1
    MaxWaits = 1
    MaxFaults = 2
INVARIANTS
    CallbacksMatch
    OnceUnlessLost
PROPERTIES
    EventuallySettled
CHECK_DEADLOCK FALSE
