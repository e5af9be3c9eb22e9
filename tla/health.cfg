SPECIFICATION FairSpec
CONSTANTS
    c1 = c1  c2 = c2  t1 = t1
    Component = {c1, c2}
    Thread = {t1}
    MaxRestarts = 1
    MaxFaults = 1
INVARIANTS TypeOK OnlineIsWatched
PROPERTIES GoneIsNoticed KeepsOnline
