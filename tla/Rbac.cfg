SPECIFICATION Spec
CONSTANTS
    u1 = u1
    u2 = u2
    i1 = i1
    i2 = i2
    n1 = n1
    n2 = n2
    edit = edit
    crm = crm
    r1 = r1
    r2 = r2
    None = None
    User <- TwoUsers
    Role <- TwoRoles
    Name <- TwoNames
    Permission <- CrmPermission
    App <- CrmApp
    AppOf <- ResourceApp
    Request <- TwoRequests
SYMMETRY Symmetry
INVARIANTS
    TypeOK
PROPERTIES
    SecondLinkComesFromOverlap
    RevocationIsComplete
    UseIsPermitted
    ImplementsRoleBook
