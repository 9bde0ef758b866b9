SPECIFICATION Spec
CONSTANTS
    p1 = p1
    p2 = p2
    a1 = a1
    a2 = a2
    r1 = r1
    r2 = r2
    None = None
    Password <- TwoPasswords
    Address <- TwoAddresses
    Request <- TwoRequests
    MaxResets = 2
    Threshold = 2
SYMMETRY Symmetry
INVARIANTS
    TypeOK
    NeverLocked
PROPERTIES
    PasswordNeedsProof
    ColumnsHaveTheirWriters
