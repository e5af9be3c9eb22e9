SPECIFICATION EditedSpec
CONSTANTS
    v1 = v1  v2 = v2  A = A  Z = Z  b1 = b1  b9 = b9  t1 = t1  t2 = t2
    Voter = {v1, v2}
    DemoVoters = {v1}
    Candidate = {A}
    ValidCandidates = {A}
    Booth = {b1}
    KnownBooths = {b1}
    AutoVoters = {v2}
    AutoNumber <- Numbers
    Thread = {t1}
    Payload <- TwoVoters
    MaxVotes = 2
    MaxElectionRows = 2
INVARIANTS ReferentialIntegrity SequenceCoversBallots NumbersIncrease
