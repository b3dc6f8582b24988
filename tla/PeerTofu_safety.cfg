CONSTANTS
    Cmd = {c1, c2}
    Alias = {a1, a2}
    Key = {k1, k2}
    NoKey = NoKey
    Absent = Absent
SPECIFICATION Spec
SYMMETRY TofuSymmetry
INVARIANT PinWasAccepted
PROPERTY PinIsKeptUnlessStaleAdd
CHECK_DEADLOCK FALSE
