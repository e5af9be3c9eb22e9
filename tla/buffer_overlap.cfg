SPECIFICATION OverlapSpec
CONSTANTS
    p1 = p1  p2 = p2  p3 = p3  v1 = v1  v2 = v2
    Vote = {p1, p3}
    Voter = {v1, v2}
    voter_id <- VoterOf
    SlowServer = FALSE
    MaxFaults = 0
INVARIANT StoredUntilCounted
