SPECIFICATION Spec
CONSTANTS
    p1 = p1
    p2 = p2
    header = header
    brand = brand
    first = first
    second = second
    Names <- MCNames
    Routes <- MCRoutes
    Templates <- MCTemplates
    Contents = {first, second}
    Components = {header}
    Variables = {brand}
    Written <- MCWritten
    Exports <- MCExports
    Builds <- MCBuilds
    MaxChanges = 3
    None = None
INVARIANTS TypeOK AdoptedIsServed VerifiedMissesNothing CalmMissesDataOnly
CHECK_DEADLOCK FALSE
