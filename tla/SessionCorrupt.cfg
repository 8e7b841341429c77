CONSTANTS
    a = a
    b = b
    End = {a, b}
    Peer <- MCPeer
    head_lenght = 1
    max_body_lenght = 1
    MaxDecoded = 2
    BodyLens = {1}
    MaxSends <- MCOneWay
    KernelTakesAll = FALSE
SPECIFICATION Spec
INVARIANT DeliveredIsSent
\* the exits of both processes end a behaviour
CHECK_DEADLOCK FALSE
