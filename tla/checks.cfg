SPECIFICATION Spec
CONSTANTS
    Builders <- MCBuilders
    PageNames = {m, n}
    None = None
    Environments <- MCEnvironments
    MaxEdits = 3
    Clones <- MCClones
    Families <- MCFamilies
    Brief <- MCBrief
    Unset = Unset
INVARIANTS
    TypeOK
    VerdictIsTrue
    FixturesRemoved
PROPERTIES
    GateHolds
