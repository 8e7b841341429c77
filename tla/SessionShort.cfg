CONSTANTS
    a = a
    b = b
    End = {a, b}
    Peer <- MCPeer
    head_lenght = 2
    max_body_lenght = 1
    MaxDecoded = 2
    BodyLens = {1, 2}
    MaxSends <- MCOneWay
    KernelTakesAll = FALSE
SPECIFICATION Spec
INVARIANTS TypeOK LiveIffOwned IntactBeforeShortSend FreedUseAfterShortSend OverrunAfterShortSend
PROPERTY KeepsLife
\* the exits of both processes end a behaviour
CHECK_DEADLOCK FALSE
