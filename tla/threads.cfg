SPECIFICATION OrderlySpec
CONSTANTS
    v1 = v1  v2 = v2  A = A  Z = Z  b1 = b1  b9 = b9  t1 = t1  t2 = t2
    Voter = {v1}
    DemoVoters = {v1}
    Candidate = {A}
    ValidCandidates = {A}
    Booth = {b1}
    KnownBooths = {b1}
    AutoVoters = {}
    AutoNumber <- NoNumbers
    Thread = {t1, t2}
    Payload <- OneVoter
    MaxVotes = 3
    MaxElectionRows = 2
INVARIANTS TypeOK OneBallotPerThread BallotIsMarked BallotIsAudited
PROPERTIES IsPollingPlace
