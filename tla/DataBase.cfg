CONSTANTS
    empty = empty
    one = one
    two = two
    update = update
    Statement = {empty, one, two, update}
    Queried = {update}
    Select = {empty, one, two}
    Rows <- MCRows
    MaxStatements = 3
SPECIFICATION FairSpec
INVARIANTS TypeOK ResIsOpen ReadThrough
PROPERTY ResultEnds
\* at the bound the script may have no statement left
CHECK_DEADLOCK FALSE
