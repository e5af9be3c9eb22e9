SPECIFICATION VotingSpec
CONSTANTS
    v1 = v1  v2 = v2  A = A  Z = Z  b1 = b1  b9 = b9  t1 = t1  t2 = t2
    Voter = {v1}
    DemoVoters = {v1}
    Candidate = {A}
    ValidCandidates = {A}
    Booth = {b1}
    KnownBooths = {b1}
    AutoVoters = {}
    AutoNumber <- NoNumbers
    Thread = {t1, t2}
    Payload <- OneVoter
    MaxVotes = 2
    MaxElectionRows = 1
INVARIANT OneBallotPerVoter
