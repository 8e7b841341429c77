CONSTANTS
    empty = empty
    one = one
    two = two
    update = update
    Statement = {empty, one, two, update}
    Queried = {one, update}
    Select = {empty, one, two}
    Rows <- MCRows
    MaxStatements = 3
SPECIFICATION Spec
INVARIANT ResIsOpen
\* at the bound the script may have no statement left
CHECK_DEADLOCK FALSE
