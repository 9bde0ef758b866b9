SPECIFICATION Spec
CONSTANTS
    u1 = u1
    u2 = u2
    c1 = c1
    c2 = c2
    d1 = d1
    p1 = p1
    p2 = p2
    n1 = n1
    r1 = r1
    r2 = r2
    None = None
    User <- TwoUsers
    Client <- TwoClients
    Document <- OneDocument
    Pan <- TwoPans
    Number <- OneNumber
    Request <- TwoRequests
SYMMETRY Symmetry
INVARIANTS
    TypeOK
    NamedFilesExist
PROPERTIES
    ActiveRecordsStay
    ImplementsBook
    OrphansComeFromFailures
CHECK_DEADLOCK FALSE
