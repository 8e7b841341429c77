CONSTANTS
    head_lenght = 4
    max_body_lenght = 1024
    BodyLens <- MCBodyLens
    UnsetBytes <- MCUnsetBytes
SPECIFICATION Spec
INVARIANTS
    TypeOK
    DecodeInvertsEncode
    TerminatorInBounds
\* a failed assert ends the process
CHECK_DEADLOCK FALSE
