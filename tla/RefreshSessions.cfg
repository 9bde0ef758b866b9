SPECIFICATION Spec
CONSTANTS
    u1 = u1
    u2 = u2
    t1 = t1
    t2 = t2
    t3 = t3
    r1 = r1
    r2 = r2
    User <- TwoUsers
    Token <- ThreeTokens
    Request <- TwoRequests
    NoToken = NoToken
    NoRow = NoRow
SYMMETRY Symmetry
INVARIANTS
    TypeOK
    RotationIsAtomic
    OneLeafUnlessForked
PROPERTIES
    SpentTokenStaysSpent
    DeadFamilyStaysDead
    LogoutRevokesWhatItFound
    ImplementsChains
    SessionsEndByTheirOwners
