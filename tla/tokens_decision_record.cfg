SPECIFICATION Spec
CONSTANTS
    home = home
    card = card
    red = red
    blue = blue
    brand = brand
    ink = ink
    Colours <- MCColours
    Names <- MCNames
    Pages <- MCPages
    Components <- MCComponents
    Extended <- MCExtended
    Palette <- MCPalette
    MaxVariables = 2
    MaxEdits = 1
    None = None
SYMMETRY Symmetry
INVARIANTS TypeOK OwnershipIsTrue
PROPERTIES ForeignUntouched ToolNeverDecides WholePagesTokenized
CHECK_DEADLOCK FALSE
