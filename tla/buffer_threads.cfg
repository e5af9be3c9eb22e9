SPECIFICATION SimulatorSpec
CONSTANTS
    p1 = p1  p2 = p2  v1 = v1  x = x  None = None
    Vote = {p1, p2}
    Voter = {v1}
    voter_id <- VoterOf
    Stranger = x
    Leftover <- LeftVotes
    SlowServer = TRUE
    MaxFaults = 0
    MaxRequests = 3
INVARIANTS FlowTypeOK OnlyVerified ShownIsCounted
PROPERTIES SaveIsDurable HeartbeatsReturn
