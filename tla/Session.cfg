CONSTANTS
    a = a
    b = b
    End = {a, b}
    Peer <- MCPeer
    head_lenght = 2
    max_body_lenght = 2
    MaxDecoded = 3
    BodyLens = {2, 3}
    MaxSends <- MCBothWays
    KernelTakesAll = TRUE
SPECIFICATION FairSpec
INVARIANT DeliveredIsSent
PROPERTIES ImplementsChannel WrittenArrives ReadChainEnds
\* the exits of both processes end a behaviour
CHECK_DEADLOCK FALSE
