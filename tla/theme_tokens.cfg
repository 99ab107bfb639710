SPECIFICATION Spec
CONSTANTS
    brand = brand
    ink = ink
    teal = teal
    navy = navy
    Color = Color
    Dimension = Dimension
    core = core
    Keys <- MCKeys
    Labels <- MCLabels
    Values <- MCValues
    Types <- MCTypes
    Groups <- MCGroups
    Tokens <- MCTokens
    Used <- MCUsed
    MaxEdits = 3
    MaxVariables = 2
    None = None
INVARIANTS TypeOK PlanSettles
PROPERTIES KeysKeepTheirVariable FallbackIsLive
CHECK_DEADLOCK FALSE
