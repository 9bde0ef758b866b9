SPECIFICATION Spec
CONSTANTS
    a = a
    b = b
    s1 = s1
    s2 = s2
    c1 = c1
    c2 = c2
    c3 = c3
    p1 = p1
    p2 = p2
    None = None
    Kek <- TwoKeks
    SigningKey <- TwoSigningKeys
    KeyId <- Ids
    PreviousId <- PositionId
    Client <- TwoClients
    Pan <- TwoPans
    CommitEvery = 2
SYMMETRY Symmetry
INVARIANT OldTokensVerify
