SPECIFICATION Spec
CONSTANTS
    a = a
    b = b
    Ids <- MCIds
    Texts = {b}
    Root = Root
    Composed <- MCComposed
    Pages = {p, q}
    None = None
    MaxChanges = 4
INVARIANTS
    TypeOK
    CleanRunCollapsesNothing
    ReportIsExact
    RevisionKeepsContent
    WholePagesStayWhole
CHECK_DEADLOCK FALSE
