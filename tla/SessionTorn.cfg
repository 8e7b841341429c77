CONSTANTS
    a = a
    b = b
    End = {a, b}
    Peer <- MCPeer
    head_lenght = 1
    max_body_lenght = 2
    MaxDecoded = 3
    BodyLens = {1, 2}
    MaxSends <- MCOneWay
    KernelTakesAll = TRUE
SPECIFICATION Spec
INVARIANT GetReadmsgIsReceived
\* the exits of both processes end a behaviour
CHECK_DEADLOCK FALSE
