SPECIFICATION FairSpec
CONSTANTS
    v1 = v1  v2 = v2  x = x
    Card = {v1, v2, x}
    Finger = {1, 2}
    Candidate = {A}
    fingerprint_id <- FingerOf
    SlowServer = TRUE
    FlashFills = TRUE
    MaxVotes = 2
    MaxOutages = 2
INVARIANTS TypeOK VoterIsPresent ToldIsKept
PROPERTIES BoothRecovers IsVoteStore
