SPECIFICATION Spec
CONSTANTS
    home = home
    about = about
    b1 = b1
    b2 = b2
    card = card
    text = text
    link = link
    hero = hero
    foot = foot
    Pages <- MCPages
    Blocks <- TwoBlocks
    PageOf <- PageOfTwo
    Shapes <- MCShapes
    Contents <- MCContents
    Names <- MCNames
    MinOccurrences = 1
    MaxEdits = 1
    None = None
INVARIANT TypeOK
PROPERTIES  NoDecisionVanishes
SYMMETRY Symmetry
CHECK_DEADLOCK FALSE
