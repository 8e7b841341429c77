CONSTANTS
    c1 = c1
    c2 = c2
    r = r
    Client = {c1, c2}
    Remote = {r}
    MaxAccepts = 2
    MaxFds = 2
SPECIFICATION FairSpec
INVARIANTS TypeOK OneAcceptPerCall DescriptorsOwned
PROPERTIES RunServes ClientsServed DescriptorsReturn IntroducesSessions
\* a script that was aborted, or that does nothing after run(), ends a behaviour
CHECK_DEADLOCK FALSE
