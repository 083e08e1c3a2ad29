SPECIFICATION FairSpec
CONSTANTS
    ann = ann
    t1 = t1
    p1 = p1
    p2 = p2
    Users = {ann}
    Nobody = Nobody
    Texts = {t1}
    Blank = Blank
    Pictures = {p1, p2}
    NoPicture = NoPicture
    MaxTime = 2
    Faults = TRUE
INVARIANTS
    TypeOK
    SubmittedAsSeen
PROPERTIES
    RequestsKept
    SubmitAnswered
