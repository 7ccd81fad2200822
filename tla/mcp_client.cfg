SPECIFICATION ClientSpec
CONSTANTS
    Calls = {c1, c2, c3}
    MaxTokens = 4
    NoAnswer = NoAnswer
SYMMETRY Symmetry
CHECK_DEADLOCK FALSE
INVARIANTS
    ClientTypeOK
    OnceAndAsReported
    RefreshIsTransparent
