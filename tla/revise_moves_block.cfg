SPECIFICATION Spec
CONSTANTS
    a = a
    b = b
    Ids <- MCIds
    Texts = {b}
    Root = Root
    Composed <- MCComposed
    Pages = {p}
    None = None
    MaxChanges = 4
INVARIANTS
    ReviseKeepsPages
CHECK_DEADLOCK FALSE
