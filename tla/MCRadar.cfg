CONSTANTS
    None = None
    ca = ca
    cb = cb
    cx = cx
    cy = cy
    co1 = co1
    cn1 = cn1
    cn2 = cn2
CHECK_DEADLOCK FALSE
SPECIFICATION RadarSpec
INVARIANTS
    RadarTypeOK
    RadarSafe
PROPERTIES
    RadarStepsKept
