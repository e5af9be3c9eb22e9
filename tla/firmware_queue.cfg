SPECIFICATION FairSpec
CONSTANTS
    v1 = v1  v2 = v2  x = x
    Card = {v1, v2}
    Finger = {1, 2}
    Candidate = {A}
    fingerprint_id <- FingerOf
    SlowServer = FALSE
    FlashFills = FALSE
    MaxVotes = 2
    MaxOutages = 0
PROPERTY EachFileTried
