CONSTANTS
    Call = {a, b, c}
    Resent = {b}
SYMMETRY CallSymmetry
SPECIFICATION Spec
INVARIANTS ClearedMeansUntouched ClaimsSettledUnlessToldAlready
CHECK_DEADLOCK FALSE
