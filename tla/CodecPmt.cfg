CONSTANTS
    head_lenght = 4
    max_body_lenght = 1024
    BodyLens <- MCBodyLens
    UnsetBytes <- MCUnsetBytes
SPECIFICATION Spec
INVARIANT DefaultPmtReachesReader
CHECK_DEADLOCK FALSE
