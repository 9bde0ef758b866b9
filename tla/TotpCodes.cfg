SPECIFICATION Spec
CONSTANTS
    b1 = b1
    b2 = b2
    b3 = b3
    k1 = k1
    k2 = k2
    r1 = r1
    r2 = r2
    None = None
    Batch <- ThreeBatches
    Position <- TwoCodes
    Request <- TwoRequests
SYMMETRY Symmetry
INVARIANTS
    TypeOK
PROPERTIES
    GoneCodesStayGone
    ConfirmedIsPresented
    VerifiedLeavesByProof
CHECK_DEADLOCK FALSE
